---- MODULE Spec2Model ----
(***************************************************************************)
(* Storage reconciliation of the note-taking client.                       *)
(*                                                                         *)
(*   - the per-kind merge (mergeData of the Supabase sync, downloadAndMerge*)
(*     of the WebDAV sync) as pure operators, checked under SpecMerge;     *)
(*   - one WebDAV sync pass as a step-by-step process (SpecSync), and two  *)
(*     passes running in the same page (SpecRace);                         *)
(*   - the storage mode of StorageProvider and useStorageHook (SpecMode,   *)
(*     and SpecModeFair where every awaited call settles);                 *)
(*   - the local IndexedDB store with its id counters (SpecStore);         *)
(*   - the folders, notes, tags and links of one store, with the calls     *)
(*     that delete and attach them (SpecEnt);                              *)
(*   - export, clear and import of the local dataset (SpecPort);           *)
(*   - one Supabase sync pass against the server's routes (SpecSupa);      *)
(*   - the updatedAt of the notes of one store (SpecStamp);                *)
(*   - the mode and the sync requests of the useStorage hook (SpecCtl);    *)
(*   - the owners of the records the sync route writes (SpecOwn).          *)
(*                                                                         *)
(* Each specification drives its own group of variables and leaves the    *)
(* other groups at their idle value.                                       *)
(***************************************************************************)
EXTENDS Integers, Sequences, FiniteSets, TLC

(***************************************************************************)
(* Bounds of the merge inputs.                                             *)
(***************************************************************************)
\* identifiers of the merge inputs range over 0..MaxId; 0 is a placeholder
\* (non-positive) identifier
MaxId == 2
\* updatedAt values (milliseconds of a Date) range over 1..MaxTime
MaxTime == 2

(***************************************************************************)
(* Bounds of the sync passes.                                              *)
(***************************************************************************)
\* identifiers of the stored records range over 1..SyncMaxId
SyncMaxId == 1
\* updatedAt values of the stored notes range over 1..SyncMaxTime
SyncMaxTime == 2
\* keys of the links of two replicas (SpecLinks) range over 1..SyncMaxLinkId
SyncMaxLinkId == 2
\* notes, folders and tags the two sides hold together before a pass
MaxRecords == 2
\* sync passes that may be in flight in one page (SpecRace)
NPasses == 2

(***************************************************************************)
(* Bound of the storage mode controller.                                   *)
(***************************************************************************)
\* runs of one initialization (local or WebDAV) that may be awaited at once
MaxEffects == 2

(***************************************************************************)
(* Bounds of the object store of IndexedDBStorage.                         *)
(***************************************************************************)
\* the id counter issues the ids 1..StoreMaxId
StoreMaxId == 3
\* records of one kind in an imported document
MaxDocLen == 2

(***************************************************************************)
(* Bounds of the relational store (folders, notes, tags, links).           *)
(***************************************************************************)
\* notes and tags get the ids 1..EntMaxId
EntMaxId == 2
\* folders get the ids 1..EntMaxFolders
EntMaxFolders == 1
\* links between notes and tags get the ids 1..EntMaxLinks
EntMaxLinks == 2

(***************************************************************************)
(* Bounds of the note timestamps.                                          *)
(***************************************************************************)
\* the clock shows the times 0..StampMaxTime
StampMaxTime == 2
\* notes get the ids 1..StampMaxNotes
StampMaxNotes == 2

(***************************************************************************)
(* Bound of the sync requests of the useStorage hook.                      *)
(***************************************************************************)
\* a pass writes to its backend up to CtlMaxWrites times
CtlMaxWrites == 2

(***************************************************************************)
(* Bounds of the owners of the server's records.                           *)
(***************************************************************************)
\* the server holds records of the ids 1..OwnMaxId before the first
\* request; a request body names the ids 0..OwnMaxId
OwnMaxId == 1

(***************************************************************************)
(* Bounds of the export and import of the local dataset.                   *)
(***************************************************************************)
\* the key generators issue keys up to PortMaxId; the records of an
\* imported file have the ids -1..PortMaxId
PortMaxId == 1
\* files that are imported into one store
PortMaxImports == 1

VARIABLES
  mKind,      \* merge: "notes" (records carry updatedAt) or "folders" (none)
  mLocal,     \* merge: the localItems argument
  mRemote,    \* merge: the remote list (the GET response / the file's JSON)
  mOut,       \* merge: the merged list returned
  mStep,      \* merge: "input", then the function that was applied
  db,         \* sync: the local IndexedDB tables, kind -> set of records
  dav,        \* sync: the WebDAV files, kind -> [exists, items]
  lastSync,   \* sync: how often metadata 'webdav-sync' was saved
  pass,       \* sync: the state of each syncWithWebDAV call
  storageType,      \* mode: the storageType state of StorageProvider
  savedType,        \* mode: localStorage 'notecraft_storage_type', or "none"
  webdavConfig,     \* mode: the webdavConfig state, "none" for null
  savedConfig,      \* mode: localStorage 'notecraft_webdav_config'
  isAuthenticated,  \* mode: the isAuthenticated state of AuthProvider
  session,          \* mode: the server holds a session of this browser
  isReady,          \* mode: the isReady state of useStorageHook
  initError,        \* mode: the error state of useStorageHook: "none" for
                    \*       null, else the init call that threw it
  awaited,            \* mode: the awaited calls of the effects
  req,              \* mode: the last request to change the mode
  storeItems,   \* store: the records of one object store of IndexedDBStorage
  idCounter,    \* store: idCounters[storeName] of the instance
  connected,    \* store: init() of the instance has resolved
  importing,    \* store: the importData call in progress
  overwritten,  \* store: the call whose freshly issued id replaced a record
  issued,       \* store: what getNextId has returned so far
  impl,     \* entities: which store implementation holds the tables
  ent,      \* entities: the folders, notes, tags and noteTags tables
  nextId,   \* entities: the next key of each table (generator or counter)
  del,      \* entities: the deleteFolder / deleteNote / deleteTag in flight
  att,      \* entities: the addTagToNote call in flight
  just,     \* entities: the call that returned in the last step
  pImpl,      \* export/import: "utils" (utils/storage.ts) or "localDb" (db.ts)
  pStore,     \* export/import: the four tables, kind -> set of records
  pCounters,  \* export/import: the next key of each table
  pImports,   \* export/import: files imported so far
  pLast,      \* export/import: the last export or import, with its document
  sLocal,   \* supabase: the local IndexedDB tables, kind -> set of records
  sRemote,  \* supabase: the tables of the server's MemStorage
  sNext,    \* supabase: the id counters of the server's MemStorage
  sPass,    \* supabase: the state of the syncWithSupabase call
  tImpl,     \* timestamps: which store implementation holds the notes
  tNotes,    \* timestamps: the notes, with updatedAt and the time of the
             \*             last mutation of each
  tFolder,   \* timestamps: folder 1 exists
  tNow,      \* timestamps: the clock, what new Date() returns
  cType,     \* useStorage: the storageType state of the hook
  cUser,     \* useStorage: the user state is not null
  cConfig,   \* useStorage: the webdavConfig state: "none" for null, else
             \*             "enabled" or "disabled"
  cInit,     \* useStorage: the isInitialized state
  cSession,  \* useStorage: the server holds a session of this browser
  cPass,     \* useStorage: the sync pass in flight
  cWrote,    \* useStorage: the last write to a backend, with the mode the
             \*             hook was in when it happened
  oStore,    \* owners: the tables of the server, every record with the
             \*         userId of its owner
  oNext,     \* owners: the id counters of the server
  oUser,     \* owners: req.session.userId, "none" without a session
  oStatus    \* owners: the status of the last answer of the sync route

mergeVars == <<mKind, mLocal, mRemote, mOut, mStep>>
syncVars == <<db, dav, lastSync, pass>>
\* what the actions of one part leave unchanged
modeVars == <<storageType, savedType, webdavConfig, savedConfig,
              isAuthenticated, session, isReady, initError, awaited, req>>
storeVars == <<storeItems, idCounter, connected, importing, overwritten,
               issued>>
entVars == <<impl, ent, nextId, del, att, just>>
portVars == <<pImpl, pStore, pCounters, pImports, pLast>>
supaVars == <<sLocal, sRemote, sNext, sPass>>
stampVars == <<tImpl, tNotes, tFolder, tNow>>
ctlVars == <<cType, cUser, cConfig, cInit, cSession, cPass, cWrote>>
ownVars == <<oStore, oNext, oUser, oStatus>>
notMergeVars ==
  <<syncVars, modeVars, storeVars, entVars, portVars, supaVars,
    stampVars, ctlVars, ownVars>>
notSyncVars ==
  <<mergeVars, modeVars, storeVars, entVars, portVars, supaVars,
    stampVars, ctlVars, ownVars>>
notModeVars ==
  <<mergeVars, syncVars, storeVars, entVars, portVars, supaVars,
    stampVars, ctlVars, ownVars>>
notStoreVars ==
  <<mergeVars, syncVars, modeVars, entVars, portVars, supaVars,
    stampVars, ctlVars, ownVars>>
notEntVars ==
  <<mergeVars, syncVars, modeVars, storeVars, portVars, supaVars,
    stampVars, ctlVars, ownVars>>
notSupaVars ==
  <<mergeVars, syncVars, modeVars, storeVars, entVars, portVars,
    stampVars, ctlVars, ownVars>>
notStampVars ==
  <<mergeVars, syncVars, modeVars, storeVars, entVars, portVars, supaVars,
    ctlVars, ownVars>>
notCtlVars ==
  <<mergeVars, syncVars, modeVars, storeVars, entVars, portVars, supaVars,
    stampVars, ownVars>>
notOwnVars ==
  <<mergeVars, syncVars, modeVars, storeVars, entVars, portVars, supaVars,
    stampVars, ctlVars>>
notPortVars ==
  <<mergeVars, syncVars, modeVars, storeVars, entVars, supaVars,
    stampVars, ctlVars, ownVars>>

(***************************************************************************)
(* Sequences helpers.                                                      *)
(***************************************************************************)
Range(s) == {s[i] : i \in 1..Len(s)}

Reverse(s) == [i \in 1..Len(s) |-> s[Len(s) + 1 - i]]

Ids(s) == {s[i].id : i \in 1..Len(s)}

\* how many entries of s carry identifier id
CountId(s, id) == Cardinality({i \in 1..Len(s) : s[i].id = id})

UniqueIds(s) == \A i, j \in 1..Len(s) : s[i].id = s[j].id => i = j

\* the records of set S (distinct ids) as the list a keyed store returns:
\* ascending by key
RECURSIVE SortById(_)
SortById(S) ==
  IF S = {} THEN <<>>
  ELSE LET lo == CHOOSE r \in S : \A q \in S : r.id <= q.id
       IN  <<lo>> \o SortById(S \ {lo})

(***************************************************************************)
(* The merge.                                                              *)
(***************************************************************************)
\* 'updatedAt' in item
HasUpdatedAt(item) == "updatedAt" \in DOMAIN item

\* new Map filled by items.forEach(item => { if (item.id > 0) map.set(...) }):
\* has(id)
PositiveMapHas(items, id) ==
  \E i \in 1..Len(items) : items[i].id > 0 /\ items[i].id = id

\* get(id) of that map: a later set() of the same key replaces the earlier
PositiveMapGet(items, id) ==
  LET last == CHOOSE i \in 1..Len(items) :
                /\ items[i].id = id
                /\ \A j \in (i + 1)..Len(items) : items[j].id # id
  IN  items[last]

\* the WebDAV sync fills its local map with every item, whatever its id
AnyMapHas(items, id) == \E i \in 1..Len(items) : items[i].id = id

\* a mutant of PickVersion: without timestamps the remote item is pushed
PickVersionPreferRemote(localItem, remoteItem) ==
  IF HasUpdatedAt(localItem) /\ HasUpdatedAt(remoteItem)
  THEN IF localItem.updatedAt > remoteItem.updatedAt THEN localItem ELSE remoteItem
  ELSE remoteItem

\* the record pushed for an id present on both sides:
\* localDate > remoteDate ? localItem : remoteItem, the local one without
\* timestamps
PickVersion(localItem, remoteItem) ==
  IF HasUpdatedAt(localItem) /\ HasUpdatedAt(remoteItem)
  THEN IF localItem.updatedAt > remoteItem.updatedAt THEN localItem ELSE remoteItem
  ELSE localItem

\* localItems.forEach: one pushed record per local item, in local order
MergeLocalPart(localItems, remoteItems) ==
  [i \in 1..Len(localItems) |->
     IF localItems[i].id > 0 /\ PositiveMapHas(remoteItems, localItems[i].id)
     THEN PickVersion(localItems[i], PositiveMapGet(remoteItems, localItems[i].id))
     ELSE localItems[i]]

\* a mutant of the remote loop: every positive remote item is appended
RemoteOnlyNoLocalCheck(localItems, remoteItems) ==
  SelectSeq(remoteItems, LAMBDA r : r.id > 0)

\* remoteItems.forEach: the remote items that don't exist locally (Supabase)
RemoteOnlySupabase(localItems, remoteItems) ==
  SelectSeq(remoteItems,
            LAMBDA r : r.id > 0 /\ ~ PositiveMapHas(localItems, r.id))

\* remoteItems.forEach: the remote items that don't exist locally (WebDAV)
RemoteOnlyWebDAV(localItems, remoteItems) ==
  SelectSeq(remoteItems, LAMBDA r : r.id > 0 /\ ~ AnyMapHas(localItems, r.id))

\* a mutant of mergeData: the loop over the remote items is missing
mergeDataLocalLoopOnly(localItems, remoteItems) ==
  IF Len(remoteItems) = 0
  THEN localItems
  ELSE MergeLocalPart(localItems, remoteItems)

\* mergeData of syncWithSupabase
mergeData(localItems, remoteItems) ==
  IF Len(remoteItems) = 0
  THEN localItems
  ELSE MergeLocalPart(localItems, remoteItems)
         \o RemoteOnlySupabase(localItems, remoteItems)

\* a download result: the parsed JSON of the file, or null
Downloaded(items) == [isNull |-> FALSE, items |-> items]
DownloadedNull == [isNull |-> TRUE, items |-> <<>>]

\* downloadAndMerge of syncWithWebDAV, after its download returned
downloadAndMerge(remote, localItems) ==
  IF remote.isNull
  THEN localItems
  ELSE MergeLocalPart(localItems, remote.items)
         \o RemoteOnlyWebDAV(localItems, remote.items)

(***************************************************************************)
(* SpecMerge: the two merge functions applied to bounded inputs.           *)
(***************************************************************************)
MergeIds == 0..MaxId
MergeTimes == 1..MaxTime

\* a Note-like record (with updatedAt) and a Folder/Tag-like record (without)
NoteRec(id, t, v) == [id |-> id, updatedAt |-> t, val |-> v]
PlainRec(id, v) == [id |-> id, val |-> v]

\* every list of one kind with distinct ids, in key order, whose payload is v
NoteLists(v) ==
  UNION {{SortById({NoteRec(i, f[i], v) : i \in S}) : f \in [S -> MergeTimes]}
           : S \in SUBSET MergeIds}

PlainLists(v) == {SortById({PlainRec(i, v) : i \in S}) : S \in SUBSET MergeIds}

InitMerge ==
  /\ mStep = "input"
  /\ mOut = <<>>
  /\ \/ /\ mKind = "notes"
        /\ mLocal \in NoteLists("L")
        /\ \/ \E r \in NoteLists("R") : mRemote \in {r, Reverse(r)}
           \/ mRemote = mLocal
     \/ /\ mKind = "folders"
        /\ mLocal \in PlainLists("L")
        /\ \/ \E r \in PlainLists("R") : mRemote \in {r, Reverse(r)}
           \/ mRemote = mLocal

MergeIdle ==
  /\ mStep = "off"
  /\ mKind = "notes"
  /\ mLocal = <<>>
  /\ mRemote = <<>>
  /\ mOut = <<>>

\* syncWithSupabase merges what its GET returned
MergeSupabase ==
  /\ mStep = "input"
  /\ mOut' = mergeData(mLocal, mRemote)
  /\ mStep' = "mergeData"
  /\ UNCHANGED <<mKind, mLocal, mRemote, notMergeVars>>

\* syncWithWebDAV merges the file it downloaded
MergeWebDAV ==
  /\ mStep = "input"
  /\ mOut' = downloadAndMerge(Downloaded(mRemote), mLocal)
  /\ mStep' = "downloadAndMerge"
  /\ UNCHANGED <<mKind, mLocal, mRemote, notMergeVars>>

\* syncWithWebDAV when the download returned null (no file, or any error)
MergeWebDAVNull ==
  /\ mStep = "input"
  /\ mOut' = downloadAndMerge(DownloadedNull, mLocal)
  /\ mStep' = "downloadNull"
  /\ UNCHANGED <<mKind, mLocal, mRemote, notMergeVars>>

NextMerge == MergeSupabase \/ MergeWebDAV \/ MergeWebDAVNull

(***************************************************************************)
(* Claims about the merge (SpecMerge).                                     *)
(***************************************************************************)
Merged == mStep \in {"mergeData", "downloadAndMerge"}

\* the records of list s that carry identifier id
WithId(s, id) == {r \in Range(s) : r.id = id}

\* the positive identifiers present in both input lists
SharedIds == {id \in Ids(mLocal) \cap Ids(mRemote) : id > 0}

\* C1: for a note whose positive id is in both lists the merge outputs the
\* remote copy when remote updatedAt is strictly newer, and the local copy
\* when local updatedAt is newer or the two are equal.
C1_LocalWinsUnlessRemoteNewer ==
  (Merged /\ mKind = "notes") =>
    \A id \in SharedIds :
      \A l \in WithId(mLocal, id) : \A r \in WithId(mRemote, id) :
        WithId(mOut, id) = {IF r.updatedAt > l.updatedAt THEN r ELSE l}

\* C23: for records without updatedAt (folders, tags, links), whenever a
\* positive id is in both lists the merge outputs the local record for it
\* and nothing else, whatever the remote record holds.
C23_LocalWinsWithoutTimestamp ==
  (Merged /\ mKind = "folders") =>
    \A id \in SharedIds :
      \A l \in WithId(mLocal, id) : WithId(mOut, id) = {l}

\* C23's case: an id on both sides whose remote record differs from the local
C23_Witness ==
  /\ Merged
  /\ mKind = "folders"
  /\ \E id \in SharedIds :
       \E l \in WithId(mLocal, id) : \E r \in WithId(mRemote, id) :
         l # r /\ l \in Range(mOut)

\* C2: with ids unique within each list, the merged list holds exactly one
\* record for every positive id of local or remote (none lost, none twice),
\* and no positive id that neither side has.
C2_OneRecordPerId ==
  Merged =>
    \A id \in 1..MaxId :
      CountId(mOut, id) = IF id \in Ids(mLocal) \cup Ids(mRemote) THEN 1 ELSE 0

\* C2's case: one id on both sides and one id the remote alone has
C2_Witness ==
  /\ mStep = "mergeData"
  /\ SharedIds # {}
  /\ \E id \in Ids(mRemote) \ Ids(mLocal) : id > 0
  /\ UniqueIds(mLocal) /\ UniqueIds(mRemote)

\* C3: merging a list with itself yields a list set-equal to it, with no
\* record duplicated.
C3_SelfMergeIsIdentity ==
  (Merged /\ mRemote = mLocal) =>
    /\ Range(mOut) = Range(mLocal)
    /\ Len(mOut) = Len(mLocal)

\* C3's case: a list of several records merged with itself
C3_Witness ==
  /\ mStep = "downloadAndMerge"
  /\ mRemote = mLocal
  /\ Len(mLocal) >= 2
  /\ mOut = mLocal

DisjointInputs == Ids(mLocal) \cap Ids(mRemote) = {}

AllOfBoth ==
  /\ Len(mOut) = Len(mLocal) + Len(mRemote)
  /\ Range(mLocal) \cup Range(mRemote) \subseteq Range(mOut)

Kinds == {"notes", "noteTags", "folders", "tags"}

LinkRec(id, noteId, tagId) == [id |-> id, noteId |-> noteId, tagId |-> tagId]

IdsOf(table) == {r.id : r \in table}

\* objectStore.put(record): insert, or replace the record of the same key
Put(table, rec) == {r \in table : r.id # rec.id} \cup {rec}

\* for (const item of items) await store.put(item)
RECURSIVE PutAll(_, _)
PutAll(table, items) ==
  IF items = <<>> THEN table
  ELSE PutAll(Put(table, Head(items)), Tail(items))

\* exportAllData: database.getAll of each table
exportAllData(store) == [k \in Kinds |-> SortById(store[k])]

\* importAllData in one transaction: every record of the kinds the caller
\* passed is put; nothing is deleted
importAllData(store, data, kinds) ==
  [k \in Kinds |->
     IF k \in kinds /\ Len(data[k]) > 0 THEN PutAll(store[k], data[k])
     ELSE store[k]]

\* the kinds a pass handles: !dataType || dataType === ...
KindsOf(dataType) ==
  CASE dataType = "all" -> Kinds
    [] dataType = "notes" -> {"notes", "noteTags"}
    [] dataType = "folders" -> {"folders"}
    [] dataType = "tags" -> {"tags"}

DataTypes == {"all", "notes", "folders", "tags"}

\* a mutant of AllSteps: the metadata is saved before the uploads
AllStepsMetaFirst ==
  << [op |-> "download", kind |-> "notes"],
     [op |-> "download", kind |-> "noteTags"],
     [op |-> "download", kind |-> "folders"],
     [op |-> "download", kind |-> "tags"],
     [op |-> "import", kind |-> "all"],
     [op |-> "meta", kind |-> "all"],
     [op |-> "upload", kind |-> "notes"],
     [op |-> "upload", kind |-> "noteTags"],
     [op |-> "upload", kind |-> "folders"],
     [op |-> "upload", kind |-> "tags"] >>

\* the awaited steps of syncWithWebDAV after the export, in program order
AllSteps ==
  << [op |-> "download", kind |-> "notes"],
     [op |-> "download", kind |-> "noteTags"],
     [op |-> "download", kind |-> "folders"],
     [op |-> "download", kind |-> "tags"],
     [op |-> "import", kind |-> "all"],
     [op |-> "upload", kind |-> "notes"],
     [op |-> "upload", kind |-> "noteTags"],
     [op |-> "upload", kind |-> "folders"],
     [op |-> "upload", kind |-> "tags"],
     [op |-> "meta", kind |-> "all"] >>

StepsOf(dataType) ==
  SelectSeq(AllSteps,
            LAMBDA st : st.kind = "all" \/ st.kind \in KindsOf(dataType))

EmptyLists == [k \in Kinds |-> <<>>]
EmptyTables == [k \in Kinds |-> {}]

IdlePass ==
  [pc |-> "idle", dataType |-> "all", at |-> 0,
   localData |-> EmptyLists, merged |-> EmptyLists, before |-> EmptyTables,
   remoteBefore |-> [k \in Kinds |-> {}], fetchFailed |-> {}]

Passes == 1..NPasses

\* the step the pass is about to take
CurrentStep(p) == StepsOf(pass[p].dataType)[pass[p].at]

Running(p) == pass[p].pc = "running"

\* the pass moves past its current step
Advance(p, fields) ==
  pass' = [pass EXCEPT ![p] = fields @@
            [at |-> IF pass[p].at = Len(StepsOf(pass[p].dataType))
                    THEN 0 ELSE pass[p].at + 1,
             pc |-> IF pass[p].at = Len(StepsOf(pass[p].dataType))
                    THEN "done" ELSE "running"] @@ pass[p]]

\* the pass throws: catch (error) { ...; throw error }
Throw(p) == pass' = [pass EXCEPT ![p].pc = "failed", ![p].at = 0]

(***************************************************************************)
(* syncWithWebDAV, one action per awaited step.                            *)
(***************************************************************************)
\* the call up to and including exportAllData
SyncStart(p, dataType) ==
  /\ pass[p].pc = "idle"
  /\ pass' = [pass EXCEPT ![p] =
       [pc |-> "running", dataType |-> dataType, at |-> 1,
        localData |-> exportAllData(db), merged |-> EmptyLists,
        before |-> db,
        remoteBefore |-> [k \in Kinds |-> Ids(dav[k].items)],
        fetchFailed |-> {}]]
  /\ UNCHANGED <<db, dav, lastSync, notSyncVars>>

\* if (!config.enabled) return false
SyncDisabled(p) ==
  /\ pass[p].pc = "idle"
  /\ pass' = [pass EXCEPT ![p].pc = "skipped"]
  /\ UNCHANGED <<db, dav, lastSync, notSyncVars>>

\* getWebDAVClient throws: the server cannot be initialized
SyncNoClient(p) ==
  /\ pass[p].pc = "idle"
  /\ pass' = [pass EXCEPT ![p].pc = "failed", ![p].before = db]
  /\ UNCHANGED <<db, dav, lastSync, notSyncVars>>

\* downloadAndMerge of one kind: the file exists and parses
SyncDownload(p) ==
  /\ Running(p)
  /\ CurrentStep(p).op = "download"
  /\ LET k == CurrentStep(p).kind
     IN  /\ dav[k].exists
         /\ Advance(p, [merged |-> [pass[p].merged EXCEPT ![k] =
               downloadAndMerge(Downloaded(dav[k].items), pass[p].localData[k])]])
  /\ UNCHANGED <<db, dav, lastSync, notSyncVars>>

\* downloadAndMerge of one kind: downloadFromWebDAV returned null, because
\* the file does not exist, or because the file exists and the request or the
\* parse threw (the catch returns null); fetchFailed records the latter kinds
SyncDownloadNull(p) ==
  /\ Running(p)
  /\ CurrentStep(p).op = "download"
  /\ LET k == CurrentStep(p).kind
         threw == dav[k].exists
     IN  Advance(p,
           [merged |-> [pass[p].merged EXCEPT ![k] =
              downloadAndMerge(DownloadedNull, pass[p].localData[k])],
            fetchFailed |-> IF threw THEN pass[p].fetchFailed \cup {k}
                            ELSE pass[p].fetchFailed])
  /\ UNCHANGED <<db, dav, lastSync, notSyncVars>>

\* await importAllData(mergedData)
SyncImport(p) ==
  /\ Running(p)
  /\ CurrentStep(p).op = "import"
  /\ db' = importAllData(db, pass[p].merged, KindsOf(pass[p].dataType))
  /\ Advance(p, [merged |-> pass[p].merged])
  /\ UNCHANGED <<dav, lastSync, notSyncVars>>

\* the import transaction aborts
SyncImportFails(p) ==
  /\ Running(p)
  /\ CurrentStep(p).op = "import"
  /\ Throw(p)
  /\ UNCHANGED <<db, dav, lastSync, notSyncVars>>

\* await uploadToWebDAV(config, path, mergedData.<kind>)
SyncUpload(p) ==
  /\ Running(p)
  /\ CurrentStep(p).op = "upload"
  /\ LET k == CurrentStep(p).kind
     IN  dav' = [dav EXCEPT ![k] = [exists |-> TRUE, items |-> pass[p].merged[k]]]
  /\ Advance(p, [merged |-> pass[p].merged])
  /\ UNCHANGED <<db, lastSync, notSyncVars>>

\* putFileContents throws
SyncUploadFails(p) ==
  /\ Running(p)
  /\ CurrentStep(p).op = "upload"
  /\ Throw(p)
  /\ UNCHANGED <<db, dav, lastSync, notSyncVars>>

\* await saveMetadata('webdav-sync', { lastSyncTime: new Date() })
SyncSaveMeta(p) ==
  /\ Running(p)
  /\ CurrentStep(p).op = "meta"
  /\ lastSync' = lastSync + 1
  /\ Advance(p, [merged |-> pass[p].merged])
  /\ UNCHANGED <<db, dav, notSyncVars>>

SyncStep(p) ==
  \/ \E dataType \in DataTypes : SyncStart(p, dataType)
  \/ SyncDisabled(p)
  \/ SyncNoClient(p)
  \/ SyncDownload(p)
  \/ SyncDownloadNull(p)
  \/ SyncImport(p)
  \/ SyncImportFails(p)
  \/ SyncUpload(p)
  \/ SyncUploadFails(p)
  \/ SyncSaveMeta(p)

(***************************************************************************)
(* SpecSync: one pass over bounded datasets; SpecRace: NPasses passes.     *)
(***************************************************************************)
SyncIds == 1..SyncMaxId
SyncTimes == 1..SyncMaxTime

NoteSets(v) ==
  UNION {{{NoteRec(i, f[i], v) : i \in S} : f \in [S -> SyncTimes]}
           : S \in SUBSET SyncIds}

PlainSets(v) == {{PlainRec(i, v) : i \in S} : S \in SUBSET SyncIds}

AllLinks == {LinkRec(i, n, t) : i \in SyncIds, n \in SyncIds, t \in SyncIds}

\* no link of the dataset references a note or tag the dataset lacks
NoDangling(d) ==
  \A l \in d.noteTags :
    l.noteId \in IdsOf(d.notes) /\ l.tagId \in IdsOf(d.tags)

\* keys are unique, and so are the (noteId, tagId) pairs
LinksDistinct(L) ==
  \A a, b \in L :
    (a.id = b.id \/ (a.noteId = b.noteId /\ a.tagId = b.tagId)) => a = b

Entities(d) ==
  Cardinality(d.notes) + Cardinality(d.folders) + Cardinality(d.tags)

\* the datasets one side can hold: free of dangling links
SideData(v) ==
  {d \in [notes : NoteSets(v), noteTags : SUBSET AllLinks,
          folders : PlainSets(v), tags : PlainSets(v)] :
     NoDangling(d) /\ LinksDistinct(d.noteTags) /\ Entities(d) <= MaxRecords}

InitSync ==
  /\ db \in SideData("L")
  /\ \E remote \in SideData("R") :
       /\ Entities(db) + Entities(remote) <= MaxRecords
       /\ dav = [k \in Kinds |->
                   [exists |-> remote[k] # {}, items |-> SortById(remote[k])]]
  /\ lastSync = 0
  /\ pass = [p \in Passes |-> IdlePass]

\* the links one replica can hold: distinct keys, distinct pairs
LinkSets ==
  {L \in SUBSET {LinkRec(i, n, t) :
                   i \in 1..SyncMaxLinkId, n \in SyncIds, t \in SyncIds} :
     LinksDistinct(L)}

\* two replicas that hold the same notes and tags, as an earlier pass left
\* them, and whose links were attached and detached on each side since
InitLinks ==
  /\ \E L \in LinkSets, R \in LinkSets, u \in SyncTimes :
       LET notes == {NoteRec(i, u, "L") : i \in SyncIds}
           tags == {PlainRec(i, "L") : i \in SyncIds}
           remote == [notes |-> notes, noteTags |-> R,
                      folders |-> {}, tags |-> tags]
       IN  /\ db = [notes |-> notes, noteTags |-> L,
                    folders |-> {}, tags |-> tags]
           /\ dav = [k \in Kinds |->
                       [exists |-> remote[k] # {},
                        items |-> SortById(remote[k])]]
  /\ lastSync = 0
  /\ pass = [p \in Passes |-> IdlePass]

SyncIdle ==
  /\ db = EmptyTables
  /\ dav = [k \in Kinds |-> [exists |-> FALSE, items |-> <<>>]]
  /\ lastSync = 0
  /\ pass = [p \in Passes |-> IdlePass]

NextSync == SyncStep(1)

NextRace == \E p \in Passes : SyncStep(p)

(***************************************************************************)
(* Claims about the sync pass                                              *)
(***************************************************************************)
\* the links of a list whose note or tag is not in the given lists
DanglingIn(links, notes, tags) ==
  {l \in Range(links) : l.noteId \notin Ids(notes) \/ l.tagId \notin Ids(tags)}

FullPassDone(p) == pass[p].pc = "done" /\ pass[p].dataType = "all"

\* C5: when a pass over all kinds has ended, started from two datasets free
\* of dangling links, every link of the merged link list (the list the pass
\* put into the local store and uploaded) references a note of the merged
\* note list and a tag of the merged tag list.
C5_NoDanglingLinkAfterPass ==
  FullPassDone(1) =>
    DanglingIn(pass[1].merged.noteTags, pass[1].merged.notes,
               pass[1].merged.tags) = {}

\* C6: a pass that has thrown leaves the four local tables as they were when
\* the pass started, also when it threw in an upload after the import.
C6_FailedPassLeavesLocalUnchanged ==
  pass[1].pc = "failed" => db = pass[1].before

\* a pass is in flight from its first fetch to its last upload
InFlight(p) ==
  /\ Running(p)
  /\ pass[p].at > 1
  /\ CurrentStep(p).op # "meta"

\* C9: no two passes that handle a common kind are in flight together.
C9_PassesAreSerialized ==
  \A p, q \in Passes :
    (p # q /\ KindsOf(pass[p].dataType) \cap KindsOf(pass[q].dataType) # {})
      => ~ (InFlight(p) /\ InFlight(q))

\* the pass has uploaded the list of kind k
Uploaded(p, k) ==
  \/ pass[p].pc = "done"
  \/ /\ Running(p)
     /\ \E i \in 1..(pass[p].at - 1) :
          StepsOf(pass[p].dataType)[i] = [op |-> "upload", kind |-> k]

\* C18: when the download of a kind's file has thrown during a pass (the
\* request failed or the payload did not parse), the pass does not end with
\* success and does not upload a list of that kind.
C18_FailedFetchFailsPass ==
  \A k \in pass[1].fetchFailed :
    pass[1].pc # "done" /\ ~ Uploaded(1, k)

\* the positive ids that one side held and the other side did not when pass
\* p started: the records deleted on one side only
OneSided(p, k) ==
  LET l == IdsOf(pass[p].before[k])
      r == pass[p].remoteBefore[k]
  IN  {i \in (l \ r) \cup (r \ l) : i > 0}

\* C20: when a pass has ended with success, every record with a positive id
\* that one side held and the other side did not when the pass started, of a
\* kind the pass handles, is in the local store and in the remote file.
C20_DeletedRecordComesBack ==
  pass[1].pc = "done" =>
    \A k \in KindsOf(pass[1].dataType) :
      \A i \in OneSided(1, k) :
        i \in IdsOf(db[k]) /\ i \in Ids(dav[k].items)

\* the pass has taken the step op of kind k
Past(p, op, k) ==
  \E i \in 1..Len(StepsOf(pass[p].dataType)) :
    /\ StepsOf(pass[p].dataType)[i] = [op |-> op, kind |-> k]
    /\ pass[p].pc = "done" \/ (Running(p) /\ i < pass[p].at)

\* C22: within one pass, a kind's file is written only after that kind was
\* downloaded and merged, and holds the merged list; the local store is
\* written only after every kind of the pass was downloaded and merged, and
\* then holds the merged records; the last-sync time is saved only when the
\* import and every upload of the pass have completed, and a pass that has
\* thrown has saved none.
C22_OrderWithinPass ==
  /\ \A k \in Kinds :
       Past(1, "upload", k) =>
         /\ Past(1, "download", k)
         /\ dav[k] = [exists |-> TRUE, items |-> pass[1].merged[k]]
  /\ (pass[1].pc \in {"running", "done"} /\ db # pass[1].before) =>
       Past(1, "import", "all")
  /\ Past(1, "import", "all") =>
       \A k \in KindsOf(pass[1].dataType) :
         /\ Past(1, "download", k)
         /\ Range(pass[1].merged[k]) \subseteq db[k]
  /\ lastSync > 0 =>
       /\ Past(1, "import", "all")
       /\ \A k \in KindsOf(pass[1].dataType) : Past(1, "upload", k)
  /\ pass[1].pc = "failed" => lastSync = 0

C22_Witness ==
  /\ pass[1].pc = "done"
  /\ pass[1].dataType = "all"
  /\ lastSync = 1
  /\ db # pass[1].before
  /\ \E k \in Kinds : Len(dav[k].items) > Cardinality(pass[1].remoteBefore[k])

\* C14: in every state of the local store, before, during and after a sync
\* pass between two replicas whose links each have distinct pairs, no two
\* links of the store have the same (noteId, tagId) pair.
C14_LinkPairsUnique ==
  \A a, b \in db.noteTags :
    (a.noteId = b.noteId /\ a.tagId = b.tagId) => a = b

(***************************************************************************)
(* The storage mode controller: StorageProvider (storage-context.tsx),     *)
(* useStorageHook (use-storage.ts) and AuthProvider (auth-context.tsx).    *)
(* A handler runs to its first await in one step; the awaited calls of the *)
(* effects (localDb.init, webdav.init, the auth check) are in awaited and  *)
(* complete in their own steps.                                            *)
(***************************************************************************)
StorageTypes == {"local", "supabase", "webdav"}

\* localStorage.getItem(STORAGE_TYPE_KEY) || 'local'
SavedOrLocal(saved) == IF saved = "none" THEN "local" ELSE saved

\* a mutant of PreconditionHolds: nothing is validated
PreconditionSkipped(type, authed, hasConfig) == TRUE

\* the two checks of setStorageType and of changeStorageType
PreconditionHolds(type, authed, hasConfig) ==
  /\ ~ (type = "supabase" /\ ~ authed)
  /\ ~ (type = "webdav" /\ ~ hasConfig)

\* the await the initStorage effect of useStorageHook reaches
Branch(type, authed, config) ==
  IF type = "local" THEN "local"
  ELSE IF type = "supabase" /\ authed THEN "none"
  ELSE IF type = "webdav" /\ config # "none" THEN "webdav"
  ELSE "none"

NoneAwaited ==
  [authCheck |-> FALSE, mountInit |-> FALSE, localInit |-> 0, webdavInit |-> 0]

NoReq ==
  [type |-> "local", prior |-> "local", priorSaved |-> "local",
   authed |-> FALSE, hadConfig |-> FALSE, result |-> "none",
   after |-> "local", afterSaved |-> "local", pending |-> FALSE]

\* the render after a handler: when [storageType, isAuthenticated,
\* webdavConfig] changed, the initStorage effect of useStorageHook runs to
\* its first await, or to its end when it awaits nothing
Rerender(changed, type, authed, config, t, ready, err) ==
  LET b == IF changed THEN Branch(type, authed, config) ELSE "unchanged"
  IN  /\ b = "local" => t.localInit < MaxEffects
      /\ b = "webdav" => t.webdavInit < MaxEffects
      /\ awaited' = CASE b = "local" -> [t EXCEPT !.localInit = @ + 1]
                    [] b = "webdav" -> [t EXCEPT !.webdavInit = @ + 1]
                    [] OTHER -> t
      /\ isReady' = (b = "none" \/ ready)
      /\ initError' = IF b = "none" THEN "none" ELSE err

\* the first render and the mount effects of a page load: StorageProvider
\* reads localStorage, its mount effect replaces 'supabase' by 'local'
\* (isAuthenticated is still false), useStorageHook starts its effect
Load(saved, config) ==
  LET type0 == SavedOrLocal(saved)
  IN  /\ storageType' = IF type0 = "supabase" THEN "local" ELSE type0
      /\ savedType' = IF type0 = "supabase" THEN "local" ELSE saved
      /\ webdavConfig' = config
      /\ savedConfig' = config
      /\ isAuthenticated' = FALSE
      /\ isReady' = (Branch(type0, FALSE, config) = "none")
      /\ initError' = "none"
      /\ awaited' = [authCheck |-> TRUE,
                   mountInit |-> type0 = "local",
                   localInit |-> IF type0 \in {"local", "supabase"} THEN 1 ELSE 0,
                   webdavInit |-> IF Branch(type0, FALSE, config) = "webdav"
                                  THEN 1 ELSE 0]
      /\ req' = NoReq

\* changeStorageType(type) of useStorageHook, which calls setStorageType of
\* the context; both validate before the mode is saved and set.  The
\* localDb.init awaited by setStorageType('local') changes no state here.
changeStorageType(type) ==
  LET ok == PreconditionHolds(type, isAuthenticated, webdavConfig # "none")
      changed == ok /\ type # storageType
  IN  /\ storageType' = IF ok THEN type ELSE storageType
      /\ savedType' = IF ok THEN type ELSE savedType
      /\ Rerender(changed, type, isAuthenticated, webdavConfig, awaited,
                  isReady, initError)
      /\ req' = [type |-> type, prior |-> storageType,
                 priorSaved |-> SavedOrLocal(savedType),
                 authed |-> isAuthenticated,
                 hadConfig |-> webdavConfig # "none",
                 result |-> IF ok THEN "accepted" ELSE "rejected",
                 after |-> storageType',
                 afterSaved |-> SavedOrLocal(savedType'),
                 pending |-> changed /\ type = "webdav"]
      /\ UNCHANGED <<webdavConfig, savedConfig, isAuthenticated, session>>
      /\ UNCHANGED notModeVars

\* login succeeds
login ==
  /\ session' = TRUE
  /\ isAuthenticated' = TRUE
  /\ Rerender(~ isAuthenticated, storageType, TRUE, webdavConfig, awaited,
              isReady, initError)
  /\ UNCHANGED <<storageType, savedType, webdavConfig, savedConfig, req>>
  /\ UNCHANGED notModeVars

\* logout succeeds
logout ==
  /\ isAuthenticated
  /\ session' = FALSE
  /\ isAuthenticated' = FALSE
  /\ Rerender(TRUE, storageType, FALSE, webdavConfig, awaited,
              isReady, initError)
  /\ UNCHANGED <<storageType, savedType, webdavConfig, savedConfig, req>>
  /\ UNCHANGED notModeVars

\* the answer to GET /api/auth/me of the mount effect of AuthProvider
checkAuthStatus(responseOk) ==
  /\ awaited.authCheck
  /\ isAuthenticated' = (responseOk /\ session)
  /\ Rerender(isAuthenticated' # isAuthenticated, storageType,
              isAuthenticated', webdavConfig,
              [awaited EXCEPT !.authCheck = FALSE], isReady, initError)
  /\ UNCHANGED <<storageType, savedType, webdavConfig, savedConfig, session,
                 req>>
  /\ UNCHANGED notModeVars

\* configureWebdav after webdav.test succeeded: setWebdavConfig(config)
configureWebdav ==
  /\ webdavConfig' = "config"
  /\ savedConfig' = "config"
  /\ Rerender(TRUE, storageType, isAuthenticated, "config", awaited,
              isReady, initError)
  /\ UNCHANGED <<storageType, savedType, isAuthenticated, session, req>>
  /\ UNCHANGED notModeVars

\* a mutant of LocalInitDone: setIsReady(true) is left out
LocalInitDoneNotReady(ok) ==
  /\ awaited.localInit > 0
  /\ awaited' = [awaited EXCEPT !.localInit = @ - 1]
  /\ isReady' = isReady
  /\ initError' = IF ok THEN "none" ELSE "local"
  /\ UNCHANGED <<storageType, savedType, webdavConfig, savedConfig,
                 isAuthenticated, session, req>>
  /\ UNCHANGED notModeVars

\* localDb.init awaited by the effect of useStorageHook settles
LocalInitDone(ok) ==
  /\ awaited.localInit > 0
  /\ awaited' = [awaited EXCEPT !.localInit = @ - 1]
  /\ isReady' = (ok \/ isReady)
  /\ initError' = IF ok THEN "none" ELSE "local"
  /\ UNCHANGED <<storageType, savedType, webdavConfig, savedConfig,
                 isAuthenticated, session, req>>
  /\ UNCHANGED notModeVars

\* localDb.init awaited by the mount effect of StorageProvider settles; when
\* it throws the effect calls setStorageType('local')
MountInitDone(ok) ==
  /\ awaited.mountInit
  /\ storageType' = IF ok THEN storageType ELSE "local"
  /\ savedType' = IF ok THEN savedType ELSE "local"
  /\ Rerender(storageType' # storageType, "local", isAuthenticated,
              webdavConfig, [awaited EXCEPT !.mountInit = FALSE],
              isReady, initError)
  /\ UNCHANGED <<webdavConfig, savedConfig, isAuthenticated, session, req>>
  /\ UNCHANGED notModeVars

\* webdav.init awaited by the effect of useStorageHook resolves; own says
\* that it is the run started by the last request
WebdavInitDone(own) ==
  /\ awaited.webdavInit > (IF req.pending /\ ~ own THEN 1 ELSE 0)
  /\ own => req.pending
  /\ awaited' = [awaited EXCEPT !.webdavInit = @ - 1]
  /\ isReady' = TRUE
  /\ initError' = "none"
  /\ req' = IF own THEN [req EXCEPT !.pending = FALSE, !.result = "ready"]
            ELSE req
  /\ UNCHANGED <<storageType, savedType, webdavConfig, savedConfig,
                 isAuthenticated, session>>
  /\ UNCHANGED notModeVars

\* webdav.init throws: setError, then the fallback setStorageType('local')
WebdavInitFails(own) ==
  /\ awaited.webdavInit > (IF req.pending /\ ~ own THEN 1 ELSE 0)
  /\ own => req.pending
  /\ storageType' = "local"
  /\ savedType' = "local"
  /\ Rerender(storageType # "local", "local", isAuthenticated, webdavConfig,
              [awaited EXCEPT !.webdavInit = @ - 1], isReady, "webdav")
  /\ req' = IF own
            THEN [req EXCEPT !.pending = FALSE, !.result = "initFailed",
                             !.after = "local", !.afterSaved = "local"]
            ELSE req
  /\ UNCHANGED <<webdavConfig, savedConfig, isAuthenticated, session>>
  /\ UNCHANGED notModeVars

\* the page is loaded again: the state is rebuilt from localStorage
Reload ==
  /\ Load(savedType, savedConfig)
  /\ UNCHANGED session
  /\ UNCHANGED notModeVars

\* the first load of the page in a browser that has stored nothing
InitMode ==
  /\ storageType = "local"
  /\ savedType = "none"
  /\ webdavConfig = "none"
  /\ savedConfig = "none"
  /\ isAuthenticated = FALSE
  /\ session = FALSE
  /\ isReady = FALSE
  /\ initError = "none"
  /\ awaited = [authCheck |-> TRUE, mountInit |-> TRUE, localInit |-> 1,
              webdavInit |-> 0]
  /\ req = NoReq

ModeIdle ==
  /\ storageType = "local"
  /\ savedType = "none"
  /\ webdavConfig = "none"
  /\ savedConfig = "none"
  /\ isAuthenticated = FALSE
  /\ session = FALSE
  /\ isReady = FALSE
  /\ initError = "none"
  /\ awaited = NoneAwaited
  /\ req = NoReq

NextMode ==
  \/ \E type \in StorageTypes : changeStorageType(type)
  \/ login
  \/ logout
  \/ \E responseOk \in BOOLEAN : checkAuthStatus(responseOk)
  \/ configureWebdav
  \/ \E ok \in BOOLEAN : LocalInitDone(ok)
  \/ \E ok \in BOOLEAN : MountInitDone(ok)
  \/ \E own \in BOOLEAN : WebdavInitDone(own)
  \/ \E own \in BOOLEAN : WebdavInitFails(own)
  \/ Reload

(***************************************************************************)
(* Claims about the storage mode                                           *)
(***************************************************************************)
\* C7: when a request for 'webdav' passed its precondition and the
\* initialization of WebDAV it started has failed, the mode in memory and
\* the persisted mode are the ones from before the request.
C7_FailedInitKeepsPriorMode ==
  req.result = "initFailed" =>
    /\ req.after = req.prior
    /\ req.afterSaved = req.priorSaved

\* the precondition of the last request did not hold when it was made
PreconditionFailed ==
  /\ req.result # "none"
  /\ \/ (req.type = "supabase" /\ ~ req.authed)
     \/ (req.type = "webdav" /\ ~ req.hadConfig)

\* C8: a request for 'supabase' made while not authenticated, or for 'webdav'
\* made while no WebDAV configuration is set, is rejected with an error and
\* leaves the mode in memory and the persisted mode as they were.
C8_RejectedRequestKeepsMode ==
  PreconditionFailed =>
    /\ req.result = "rejected"
    /\ req.after = req.prior
    /\ req.afterSaved = req.priorSaved

C8_Witness ==
  /\ req.result = "rejected"
  /\ req.type = "supabase"
  /\ req.prior = "webdav"
  /\ storageType = "webdav"
  /\ savedType = "webdav"

\* webdav.init has thrown, the catch of initStorage has set the mode to
\* 'local' and the effect that follows awaits localDb.init
FellBack ==
  /\ initError = "webdav"
  /\ storageType = "local"
  /\ awaited.localInit > 0

\* the fallback is complete: mode 'local', in memory and persisted, and ready
LocalAndReady ==
  /\ storageType = "local"
  /\ SavedOrLocal(savedType) = "local"
  /\ isReady

C28_ModeHasItsPrecondition ==
  /\ storageType = "supabase" => isAuthenticated
  /\ storageType = "webdav" => webdavConfig # "none"

\* C21: when a request for a remote mode other than the current one has
\* passed its precondition and its handler has returned, with the
\* initialization of the target adapter not yet settled and no reconcile
\* pass run for the transition, the mode is not yet the requested mode.
C21_ModeSetAfterReconcile ==
  (/\ req.result = "accepted"
   /\ req.type \in {"supabase", "webdav"}
   /\ req.type # req.prior) => req.after # req.type

(***************************************************************************)
(* One object store of IndexedDBStorage (db.ts) with its id counter.  The  *)
(* four stores have a counter each and are handled by the same code, so    *)
(* one of them is modelled.  importData is stepped at its awaits; create   *)
(* and delete run between them as the event loop allows.                   *)
(***************************************************************************)
StoredRec(id, by) == [id |-> id, by |-> by]

MaxOf(S) == CHOOSE m \in S : \A x \in S : x <= m

\* loadIdCounters: if (items.length > 0) idCounters[storeName] = maxId + 1
loadIdCounters(store, counter) ==
  IF store # {} THEN MaxOf(IdsOf(store)) + 1 ELSE counter

\* addItem assigns an id: item.id === undefined || item.id === 0
NeedsId(id) == id = 0

\* addItem: the id the record is stored under
addItemId(id, counter) == IF NeedsId(id) THEN counter ELSE id

\* addItem: the counter after getNextId, if it was called
addItemCounter(id, counter) == IF NeedsId(id) THEN counter + 1 ELSE counter

\* the documents a file can hold for one kind; id 0 stands for a record
\* without id or with id 0
DocIds == 0..StoreMaxId
Docs == UNION {[1..n -> DocIds] : n \in 0..MaxDocLen}

NotImporting == [pc |-> "idle", doc |-> <<>>, at |-> 0]

\* nothing issued yet: the highest id issued, whether an id was issued that
\* is not above every id issued before, whether importData was ever called
NothingIssued == [max |-> 0, again |-> FALSE, imported |-> FALSE]

\* getNextId returned id
Issue(log, id) ==
  [log EXCEPT !.max = IF id > @ THEN id ELSE @,
              !.again = @ \/ id <= log.max]

\* init(): the database opens and loadIdCounters runs
init ==
  /\ ~ connected
  /\ connected' = TRUE
  /\ idCounter' = loadIdCounters(storeItems, idCounter)
  /\ UNCHANGED <<storeItems, importing, overwritten, issued>>
  /\ UNCHANGED notStoreVars

\* createNote, createFolder, createTag: await init(), then addItem of a
\* record with id 0
create ==
  /\ connected
  /\ idCounter <= StoreMaxId
  /\ storeItems' = Put(storeItems, StoredRec(addItemId(0, idCounter), "create"))
  /\ idCounter' = addItemCounter(0, idCounter)
  /\ overwritten' = IF addItemId(0, idCounter) \in IdsOf(storeItems)
                    THEN "create" ELSE overwritten
  /\ issued' = Issue(issued, idCounter)
  /\ UNCHANGED <<connected, importing>>
  /\ UNCHANGED notStoreVars

\* deleteItem
delete(id) ==
  /\ connected
  /\ id \in IdsOf(storeItems)
  /\ storeItems' = {r \in storeItems : r.id # id}
  /\ UNCHANGED <<idCounter, connected, importing, overwritten, issued>>
  /\ UNCHANGED notStoreVars

\* importData(data) up to the first addItem: await init(), clearStore
importStart(doc) ==
  /\ connected
  /\ importing.pc = "idle"
  /\ storeItems' = {}
  /\ importing' = IF doc = <<>> THEN [pc |-> "reseed", doc |-> doc, at |-> 0]
                  ELSE [pc |-> "adding", doc |-> doc, at |-> 1]
  /\ issued' = [issued EXCEPT !.imported = TRUE]
  /\ UNCHANGED <<idCounter, connected, overwritten>>
  /\ UNCHANGED notStoreVars

\* importData: await this.addItem(store, record) of the next record
importAdd ==
  /\ importing.pc = "adding"
  /\ LET id == importing.doc[importing.at]
     IN  /\ NeedsId(id) => idCounter <= StoreMaxId
         /\ storeItems' = Put(storeItems, StoredRec(addItemId(id, idCounter), "import"))
         /\ idCounter' = addItemCounter(id, idCounter)
         /\ overwritten' = IF NeedsId(id) /\ idCounter \in IdsOf(storeItems)
                           THEN "import" ELSE overwritten
         /\ issued' = IF NeedsId(id) THEN Issue(issued, idCounter) ELSE issued
  /\ importing' = IF importing.at = Len(importing.doc)
                  THEN [importing EXCEPT !.pc = "reseed", !.at = 0]
                  ELSE [importing EXCEPT !.at = @ + 1]
  /\ UNCHANGED connected
  /\ UNCHANGED notStoreVars

\* importData: await this.loadIdCounters() at the end
importReseed ==
  /\ importing.pc = "reseed"
  /\ idCounter' = loadIdCounters(storeItems, idCounter)
  /\ importing' = NotImporting
  /\ UNCHANGED <<storeItems, connected, overwritten, issued>>
  /\ UNCHANGED notStoreVars

\* the page is loaded again: new IndexedDBStorage(), every counter 1
reloadStore ==
  /\ connected' = FALSE
  /\ idCounter' = 1
  /\ importing' = NotImporting
  /\ UNCHANGED <<storeItems, overwritten, issued>>
  /\ UNCHANGED notStoreVars

\* the constructor, on an empty database
InitStore ==
  /\ storeItems = {}
  /\ idCounter = 1
  /\ connected = FALSE
  /\ importing = NotImporting
  /\ overwritten = "none"
  /\ issued = NothingIssued

StoreIdle == InitStore

NextStore ==
  \/ init
  \/ create
  \/ \E id \in 1..(StoreMaxId + 1) : delete(id)
  \/ \E doc \in Docs : importStart(doc)
  \/ importAdd
  \/ importReseed
  \/ reloadStore

(***************************************************************************)
(* Claims about the local store                                            *)
(***************************************************************************)
\* C10: over creates, deletes, imports and re-initializations, no call that
\* has the store issue a fresh id puts its record under the id of a record
\* that is in the store, so no live record is overwritten by a create.
C10_FreshIdNeverOverwrites == overwritten = "none"

\* C11: over creates, deletes and reloads (no import), every id the counter
\* issues is greater than every id it issued before, also after a reload
\* has seeded the counter again.
C11_IssuedIdsIncrease == ~ issued.imported => ~ issued.again

(***************************************************************************)
(* The relational store: folders, notes, tags and the links between notes  *)
(* and tags, as kept by the idb store of utils/storage.ts ("utils"), by    *)
(* IndexedDBStorage of db.ts ("localDb") and by MemStorage of              *)
(* server/storage.ts ("memStorage").  A call is split where it awaits a    *)
(* read or a write of the database; one readwrite transaction is one step, *)
(* and the methods of MemStorage, which await nothing, are one step each.  *)
(***************************************************************************)
\* a note with its folder reference; folderId 0 stands for null
EntNote(id, folderId) == [id |-> id, folderId |-> folderId]

NoteIds(notes) == {n.id : n \in notes}

MinOf(S) == CHOOSE x \in S : \A y \in S : x <= y

DeleteOps == {"deleteFolder", "deleteNote", "deleteTag"}

\* the table a delete call removes its entity from
TableOf(op) ==
  CASE op = "deleteFolder" -> "folders"
    [] op = "deleteNote" -> "notes"
    [] op = "deleteTag" -> "tags"

NoDelete ==
  [pc |-> "idle", op |-> "none", id |-> 0, found |-> {}, notesBefore |-> {}]

NoAttach == [pc |-> "idle", noteId |-> 0, tagId |-> 0, exists |-> FALSE]

NothingDone == [op |-> "none", id |-> 0, ok |-> FALSE, notesBefore |-> {}]

\* the call op(id) has returned (ok) or thrown (not ok); notesBefore is the
\* notes table at the time it was called
Done(op, id, ok, notesBefore) ==
  [op |-> op, id |-> id, ok |-> ok, notesBefore |-> notesBefore]

\* the first read of a delete call: the notes of the folder, or the links of
\* the note or of the tag, by id
Found(op, id) ==
  CASE op = "deleteFolder" -> NoteIds({n \in ent.notes : n.folderId = id})
    [] op = "deleteNote" -> {l.id : l \in {k \in ent.noteTags : k.noteId = id}}
    [] op = "deleteTag" -> {l.id : l \in {k \in ent.noteTags : k.tagId = id}}

\* the delete of the entity itself
Without(tables, op, id) ==
  CASE op = "deleteFolder" -> [tables EXCEPT !.folders = @ \ {id}]
    [] op = "deleteNote" -> [tables EXCEPT !.notes = {n \in @ : n.id # id}]
    [] op = "deleteTag" -> [tables EXCEPT !.tags = @ \ {id}]

HasPair(links, noteId, tagId) ==
  \E l \in links : l.noteId = noteId /\ l.tagId = tagId

createFolder ==
  /\ nextId.folders <= EntMaxFolders
  /\ ent' = [ent EXCEPT !.folders = @ \cup {nextId.folders}]
  /\ nextId' = [nextId EXCEPT !.folders = @ + 1]
  /\ just' = NothingDone
  /\ UNCHANGED <<impl, del, att>>
  /\ UNCHANGED notEntVars

\* a note is created in no folder or in a folder the caller sees
createNote(folderId) ==
  /\ nextId.notes <= EntMaxId
  /\ folderId \in {0} \cup ent.folders
  /\ ent' = [ent EXCEPT !.notes = @ \cup {EntNote(nextId.notes, folderId)}]
  /\ nextId' = [nextId EXCEPT !.notes = @ + 1]
  /\ just' = NothingDone
  /\ UNCHANGED <<impl, del, att>>
  /\ UNCHANGED notEntVars

createTag ==
  /\ nextId.tags <= EntMaxId
  /\ ent' = [ent EXCEPT !.tags = @ \cup {nextId.tags}]
  /\ nextId' = [nextId EXCEPT !.tags = @ + 1]
  /\ just' = NothingDone
  /\ UNCHANGED <<impl, del, att>>
  /\ UNCHANGED notEntVars

\* MemStorage.deleteFolder: the folder leaves the map, and nothing else;
\* MemStorage.deleteNote and deleteTag: the links of the note or of the tag,
\* then the note or the tag
MemDelete(op, id) ==
  /\ impl = "memStorage"
  /\ LET links == CASE op = "deleteFolder" -> ent.noteTags
                    [] op = "deleteNote" -> {l \in ent.noteTags : l.noteId # id}
                    [] op = "deleteTag" -> {l \in ent.noteTags : l.tagId # id}
         stored == CASE op = "deleteFolder" -> id \in ent.folders
                     [] op = "deleteNote" -> id \in NoteIds(ent.notes)
                     [] op = "deleteTag" -> id \in ent.tags
     IN  /\ ent' = Without([ent EXCEPT !.noteTags = links], op, id)
         /\ just' = Done(op, id, stored, ent.notes)
  /\ UNCHANGED <<impl, nextId, del, att>>
  /\ UNCHANGED notEntVars

\* deleteFolder, deleteNote and deleteTag of the two IndexedDB stores begin
\* with an awaited read
deleteStart(op, id) ==
  /\ impl \in {"utils", "localDb"}
  /\ del.pc = "idle"
  /\ del' = [pc |-> "found", op |-> op, id |-> id, found |-> Found(op, id),
             notesBefore |-> ent.notes]
  /\ just' = NothingDone
  /\ UNCHANGED <<impl, ent, nextId, att>>
  /\ UNCHANGED notEntVars

\* utils/storage.ts: the one transaction that follows the read.  deleteNote
\* and deleteTag delete the links that were read, then the entity;
\* deleteFolder deletes the notes that were read, with the links each of
\* them has by then, and the folder.
utilsDeleteCommit ==
  /\ impl = "utils"
  /\ del.pc = "found"
  /\ LET links == IF del.op = "deleteFolder"
                  THEN {l \in ent.noteTags : l.noteId \notin del.found}
                  ELSE {l \in ent.noteTags : l.id \notin del.found}
         notes == IF del.op = "deleteFolder"
                  THEN {n \in ent.notes : n.id \notin del.found}
                  ELSE ent.notes
     IN  ent' = Without([ent EXCEPT !.noteTags = links, !.notes = notes],
                        del.op, del.id)
  /\ just' = Done(del.op, del.id, TRUE, del.notesBefore)
  /\ del' = NoDelete
  /\ UNCHANGED <<impl, nextId, att>>
  /\ UNCHANGED notEntVars

\* utils/storage.ts deleteFolder opens its transaction and then awaits a
\* read that runs outside of it: the transaction has no request pending and
\* may be finished when the loop first uses it, and the call then throws
\* with nothing deleted.
utilsDeleteFolderThrows ==
  /\ impl = "utils"
  /\ del.pc = "found"
  /\ del.op = "deleteFolder"
  /\ del.found # {}
  /\ just' = Done(del.op, del.id, FALSE, del.notesBefore)
  /\ del' = NoDelete
  /\ UNCHANGED <<impl, ent, nextId, att>>
  /\ UNCHANGED notEntVars

\* db.ts: one awaited call per record that was read, each in a transaction
\* of its own: updateNote(note.id, {folderId: null}) for deleteFolder,
\* deleteItem of the link for deleteNote and deleteTag
localDbDeleteNext ==
  /\ impl = "localDb"
  /\ del.pc = "found"
  /\ del.found # {}
  /\ LET x == MinOf(del.found)
     IN  /\ ent' = IF del.op = "deleteFolder"
                   THEN [ent EXCEPT !.notes =
                           {IF n.id = x THEN EntNote(n.id, 0) ELSE n : n \in @}]
                   ELSE [ent EXCEPT !.noteTags = {l \in @ : l.id # x}]
         /\ del' = [del EXCEPT !.found = @ \ {x}]
  /\ just' = NothingDone
  /\ UNCHANGED <<impl, nextId, att>>
  /\ UNCHANGED notEntVars

\* db.ts: the deleteItem of the folder, the note or the tag
localDbDeleteLast ==
  /\ impl = "localDb"
  /\ del.pc = "found"
  /\ del.found = {}
  /\ ent' = Without(ent, del.op, del.id)
  /\ just' = Done(del.op, del.id, TRUE, del.notesBefore)
  /\ del' = NoDelete
  /\ UNCHANGED <<impl, nextId, att>>
  /\ UNCHANGED notEntVars

\* MemStorage.addTagToNote: the existing link, or a new one
MemAddTagToNote(noteId, tagId) ==
  /\ impl = "memStorage"
  /\ nextId.noteTags <= EntMaxLinks
  /\ IF HasPair(ent.noteTags, noteId, tagId)
     THEN UNCHANGED <<ent, nextId>>
     ELSE /\ ent' = [ent EXCEPT !.noteTags =
                       @ \cup {LinkRec(nextId.noteTags, noteId, tagId)}]
          /\ nextId' = [nextId EXCEPT !.noteTags = @ + 1]
  /\ just' = Done("addTagToNote", noteId, TRUE, ent.notes)
  /\ UNCHANGED <<impl, del, att>>
  /\ UNCHANGED notEntVars

\* addTagToNote of the two IndexedDB stores: the awaited read of the links
attachStart(noteId, tagId) ==
  /\ impl \in {"utils", "localDb"}
  /\ att.pc = "idle"
  /\ nextId.noteTags <= EntMaxLinks
  /\ att' = [pc |-> "read", noteId |-> noteId, tagId |-> tagId,
             exists |-> HasPair(ent.noteTags, noteId, tagId)]
  /\ just' = NothingDone
  /\ UNCHANGED <<impl, ent, nextId, del>>
  /\ UNCHANGED notEntVars

\* utils/storage.ts: throw when the link was read, else put it under a key
\* of the generator
utilsAttachPut ==
  /\ impl = "utils"
  /\ att.pc = "read"
  /\ IF att.exists
     THEN UNCHANGED <<ent, nextId>>
     ELSE /\ ent' = [ent EXCEPT !.noteTags =
                       @ \cup {LinkRec(nextId.noteTags, att.noteId, att.tagId)}]
          /\ nextId' = [nextId EXCEPT !.noteTags = @ + 1]
  /\ just' = Done("addTagToNote", att.noteId, ~ att.exists, ent.notes)
  /\ att' = NoAttach
  /\ UNCHANGED <<impl, del>>
  /\ UNCHANGED notEntVars

\* db.ts: nothing when the link was read, else addItem with id 0: the
\* counter advances, and the put fails on the unique index noteId_tagId
\* when the pair is in the store by now
localDbAttachAdd ==
  /\ impl = "localDb"
  /\ att.pc = "read"
  /\ IF att.exists
     THEN /\ UNCHANGED <<ent, nextId>>
          /\ just' = Done("addTagToNote", att.noteId, TRUE, ent.notes)
     ELSE /\ nextId' = [nextId EXCEPT !.noteTags = @ + 1]
          /\ IF HasPair(ent.noteTags, att.noteId, att.tagId)
             THEN /\ UNCHANGED ent
                  /\ just' = Done("addTagToNote", att.noteId, FALSE, ent.notes)
             ELSE /\ ent' = [ent EXCEPT !.noteTags = @ \cup
                               {LinkRec(nextId.noteTags, att.noteId, att.tagId)}]
                  /\ just' = Done("addTagToNote", att.noteId, TRUE, ent.notes)
  /\ att' = NoAttach
  /\ UNCHANGED <<impl, del>>
  /\ UNCHANGED notEntVars

\* removeTagFromNote: the first link of the pair is deleted
removeTagFromNote(noteId, tagId) ==
  /\ HasPair(ent.noteTags, noteId, tagId)
  /\ LET x == MinOf({l.id : l \in {k \in ent.noteTags :
                                     k.noteId = noteId /\ k.tagId = tagId}})
     IN  ent' = [ent EXCEPT !.noteTags = {l \in @ : l.id # x}]
  /\ just' = Done("removeTagFromNote", noteId, TRUE, ent.notes)
  /\ UNCHANGED <<impl, nextId, del, att>>
  /\ UNCHANGED notEntVars

\* ids a caller can name: the ids the table has issued so far
Issued(table) == 1..(nextId[table] - 1)

\* an empty store of one of the implementations
InitEnt ==
  /\ impl \in {"utils", "localDb", "memStorage"}
  /\ ent = [folders |-> {}, notes |-> {}, tags |-> {}, noteTags |-> {}]
  /\ nextId = [folders |-> 1, notes |-> 1, tags |-> 1, noteTags |-> 1]
  /\ del = NoDelete
  /\ att = NoAttach
  /\ just = NothingDone

EntIdle ==
  /\ impl = "utils"
  /\ ent = [folders |-> {}, notes |-> {}, tags |-> {}, noteTags |-> {}]
  /\ nextId = [folders |-> 1, notes |-> 1, tags |-> 1, noteTags |-> 1]
  /\ del = NoDelete
  /\ att = NoAttach
  /\ just = NothingDone

NextEnt ==
  \/ createFolder
  \/ \E f \in 0..EntMaxFolders : createNote(f)
  \/ createTag
  \/ \E op \in DeleteOps : \E id \in Issued(TableOf(op)) : MemDelete(op, id)
  \/ \E op \in DeleteOps : \E id \in Issued(TableOf(op)) : deleteStart(op, id)
  \/ utilsDeleteCommit
  \/ utilsDeleteFolderThrows
  \/ localDbDeleteNext
  \/ localDbDeleteLast
  \/ \E n \in Issued("notes"), t \in Issued("tags") : MemAddTagToNote(n, t)
  \/ \E n \in Issued("notes"), t \in Issued("tags") : attachStart(n, t)
  \/ utilsAttachPut
  \/ localDbAttachAdd
  \/ \E n \in Issued("notes"), t \in Issued("tags") : removeTagFromNote(n, t)

(***************************************************************************)
(* Claims about the relational store                                       *)
(***************************************************************************)
\* C12: when deleteFolder(f) has returned, folder f is not in the folders
\* table, every note that was in the store when it was called is still in
\* the store, and each of them that was in folder f has no folder.
C12_DeleteFolderKeepsNotes ==
  (just.op = "deleteFolder" /\ just.ok) =>
     /\ just.id \notin ent.folders
     /\ NoteIds(just.notesBefore) \subseteq NoteIds(ent.notes)
     /\ \A n \in ent.notes :
          EntNote(n.id, just.id) \in just.notesBefore => n.folderId = 0

\* C13: when deleteNote(n) or deleteTag(t) has returned, no link refers to
\* the deleted note or tag, also when an addTagToNote ran between the steps
\* of the delete; and deleteTag has deleted no note.
C13_DeleteLeavesNoLink ==
  /\ (just.op = "deleteNote" /\ just.ok) =>
        \A l \in ent.noteTags : l.noteId # just.id
  /\ (just.op = "deleteTag" /\ just.ok) =>
        /\ \A l \in ent.noteTags : l.tagId # just.id
        /\ NoteIds(just.notesBefore) \subseteq NoteIds(ent.notes)

(***************************************************************************)
(* Export and import of the local dataset: exportAllData, clearLocalStorage*)
(* and importAllData of utils/storage.ts ("utils"), and exportData and     *)
(* importData of db.ts with the JSON file of the settings page ("localDb").*)
(* A timestamp is [ms, iso]: a Date object (iso FALSE) or the ISO string   *)
(* JSON.stringify writes for it (iso TRUE).                                *)
(***************************************************************************)
PortNote(id, iso, v) ==
  [id |-> id, updatedAt |-> [ms |-> 1, iso |-> iso], val |-> v]

\* what handleImportData reads from the file handleExportData wrote,
\* JSON.parse(JSON.stringify(data)): a Date comes back as its ISO string
JsonFile(data) ==
  [k \in Kinds |->
     [i \in 1..Len(data[k]) |->
        IF HasUpdatedAt(data[k][i])
        THEN [data[k][i] EXCEPT !.updatedAt = [ms |-> @.ms, iso |-> TRUE]]
        ELSE data[k][i]]]

\* db.ts exportData: getAllItems of each store, in key order
exportData(store) == [k \in Kinds |-> SortById(store[k])]

\* for (const item of data[kind]) await this.addItem(store, item)
RECURSIVE AddAll(_, _, _)
AddAll(table, counter, list) ==
  IF list = <<>> THEN [table |-> table, counter |-> counter]
  ELSE LET rec == Head(list)
       IN  AddAll(Put(table, [rec EXCEPT !.id = addItemId(rec.id, counter)]),
                  addItemCounter(rec.id, counter), Tail(list))

\* db.ts importData: clear the four stores, add every record of the
\* document, load the counters again
importData(counters, data) ==
  LET added == [k \in Kinds |-> AddAll({}, counters[k], data[k])]
  IN  [store |-> [k \in Kinds |-> added[k].table],
       counters |-> [k \in Kinds |->
                       loadIdCounters(added[k].table, added[k].counter)]]

\* the key generator of an autoIncrement store after put of explicit keys
GeneratorAfter(counter, ids) ==
  IF \E i \in ids : i >= counter THEN MaxOf(ids) + 1 ELSE counter

\* the files: no record, or one record of one kind, with an id of
\* -1..PortMaxId
PortDocs ==
  LET recs(k) ==
        CASE k = "notes" -> {PortNote(i, TRUE, "R") : i \in (-1)..PortMaxId}
          [] k = "noteTags" -> {LinkRec(i, 1, 1) : i \in (-1)..PortMaxId}
          [] OTHER -> {PlainRec(i, "R") : i \in (-1)..PortMaxId}
  IN  {EmptyLists} \cup
      UNION {{[EmptyLists EXCEPT ![k] = <<r>>] : r \in recs(k)} : k \in Kinds}

NoPort == [op |-> "none", doc |-> EmptyLists, before |-> EmptyTables]

\* saveNote / saveFolder / saveTag without id, createNote / createFolder /
\* createTag: the record gets the next key of its table
createRecord(k) ==
  /\ k \in {"notes", "folders", "tags"}
  /\ pCounters[k] <= PortMaxId
  /\ LET rec == IF k = "notes" THEN PortNote(pCounters[k], FALSE, "L")
                ELSE PlainRec(pCounters[k], "L")
     IN  pStore' = [pStore EXCEPT ![k] = Put(@, rec)]
  /\ pCounters' = [pCounters EXCEPT ![k] = @ + 1]
  /\ pLast' = NoPort
  /\ UNCHANGED <<pImpl, pImports>>
  /\ UNCHANGED notPortVars

\* addTagToNote for a note and a tag of the store that are not linked yet
createLink(noteId, tagId) ==
  /\ pCounters.noteTags <= PortMaxId
  /\ noteId \in IdsOf(pStore.notes)
  /\ tagId \in IdsOf(pStore.tags)
  /\ ~ HasPair(pStore.noteTags, noteId, tagId)
  /\ pStore' = [pStore EXCEPT !.noteTags =
                  Put(@, LinkRec(pCounters.noteTags, noteId, tagId))]
  /\ pCounters' = [pCounters EXCEPT !.noteTags = @ + 1]
  /\ pLast' = NoPort
  /\ UNCHANGED <<pImpl, pImports>>
  /\ UNCHANGED notPortVars

\* a file, or a merged dataset, is imported into the store as it is
importFile(doc) ==
  /\ pImports < PortMaxImports
  /\ pImports' = pImports + 1
  /\ IF pImpl = "utils"
     THEN /\ pStore' = importAllData(pStore, doc, Kinds)
          /\ pCounters' = [k \in Kinds |->
                             GeneratorAfter(pCounters[k], Ids(doc[k]))]
     ELSE /\ pStore' = importData(pCounters, doc).store
          /\ pCounters' = importData(pCounters, doc).counters
  /\ pLast' = [op |-> "import", doc |-> doc, before |-> pStore]
  /\ UNCHANGED pImpl
  /\ UNCHANGED notPortVars

\* the export: exportAllData returns the document, exportData goes through
\* the JSON file
exportDocument ==
  /\ pLast' = [op |-> "export",
               doc |-> IF pImpl = "utils" THEN exportAllData(pStore)
                       ELSE JsonFile(exportData(pStore)),
               before |-> pStore]
  /\ UNCHANGED <<pImpl, pStore, pCounters, pImports>>
  /\ UNCHANGED notPortVars

\* utils/storage.ts clearLocalStorage: every table is cleared (the key
\* generators are not reset)
clearLocalStorage ==
  /\ pImpl = "utils"
  /\ pStore # EmptyTables
  /\ pStore' = EmptyTables
  /\ pLast' = IF pLast.op = "export" THEN [pLast EXCEPT !.op = "cleared"]
              ELSE NoPort
  /\ UNCHANGED <<pImpl, pCounters, pImports>>
  /\ UNCHANGED notPortVars

\* the exported document is imported: into the cleared store by
\* importAllData, or by importData, which clears the stores itself
importExported ==
  /\ \/ pImpl = "utils" /\ pLast.op = "cleared"
     \/ pImpl = "localDb" /\ pLast.op = "export"
  /\ IF pImpl = "utils"
     THEN /\ pStore' = importAllData(pStore, pLast.doc, Kinds)
          /\ pCounters' = [k \in Kinds |->
                             GeneratorAfter(pCounters[k], Ids(pLast.doc[k]))]
     ELSE /\ pStore' = importData(pCounters, pLast.doc).store
          /\ pCounters' = importData(pCounters, pLast.doc).counters
  /\ pLast' = [pLast EXCEPT !.op = "roundTrip"]
  /\ UNCHANGED <<pImpl, pImports>>
  /\ UNCHANGED notPortVars

\* an empty store with fresh key generators
InitPort ==
  /\ pImpl \in {"utils", "localDb"}
  /\ pStore = EmptyTables
  /\ pCounters = [k \in Kinds |-> 1]
  /\ pImports = 0
  /\ pLast = NoPort

PortIdle ==
  /\ pImpl = "utils"
  /\ pStore = EmptyTables
  /\ pCounters = [k \in Kinds |-> 1]
  /\ pImports = 0
  /\ pLast = NoPort

NextPort ==
  \/ \E k \in Kinds : createRecord(k)
  \/ \E n, t \in (-1)..(PortMaxId + 1) : createLink(n, t)
  \/ \E doc \in PortDocs : importFile(doc)
  \/ exportDocument
  \/ clearLocalStorage
  \/ importExported

(***************************************************************************)
(* Claims about export and import                                          *)
(***************************************************************************)
\* C15: when the exported document has been imported into the cleared
\* store, each of the four tables holds exactly the records of the
\* document, with the same ids and the same field values.
C15_RoundTripRestores ==
  pLast.op = "roundTrip" =>
    \A k \in Kinds : pStore[k] = Range(pLast.doc[k])

\* C16: after the import of a document whose records all have positive
\* ids into a store that held records, each table holds exactly the records
\* of the document.
C16_ImportReplaces ==
  (/\ pLast.op = "import"
   /\ pLast.before # EmptyTables
   /\ \A k \in Kinds : \A i \in Ids(pLast.doc[k]) : i > 0) =>
    \A k \in Kinds : pStore[k] = Range(pLast.doc[k])

\* C24: over creates, imports of files, exports and clears, every record of
\* every table of the local store has a strictly positive id, also a record
\* that was put with a zero or negative id.
C24_StoredIdsPositive ==
  \A k \in Kinds : \A r \in pStore[k] : r.id > 0

(***************************************************************************)
(* syncWithSupabase against the routes /api/supabase/* of the server and   *)
(* its MemStorage (the version whose update methods throw for an id that   *)
(* is not stored), one action per awaited request.  One user: every record *)
(* of the server belongs to the session's user.                            *)
(***************************************************************************)
\* apiRequest: a response that is not ok surfaces as an error
apiRequestThrows(ok) == ~ ok

\* MemStorage.createNote / updateNote write updatedAt: new Date()
\* themselves, a time later than every stored timestamp
Touched(rec) ==
  IF HasUpdatedAt(rec) THEN [rec EXCEPT !.updatedAt = SyncMaxTime + 1]
  ELSE rec

\* the loop of POST /api/supabase/sync over one list: update the record
\* when its id is positive (the update throws when the id is not stored),
\* create it under the next id of the counter otherwise
RECURSIVE UpdateAll(_, _, _)
UpdateAll(table, counter, list) ==
  IF list = <<>> THEN [ok |-> TRUE, table |-> table, counter |-> counter]
  ELSE LET rec == Head(list)
       IN  IF rec.id > 0
           THEN IF rec.id \in IdsOf(table)
                THEN UpdateAll(Put(table, Touched(rec)), counter, Tail(list))
                ELSE [ok |-> FALSE, table |-> table, counter |-> counter]
           ELSE UpdateAll(Put(table, [Touched(rec) EXCEPT !.id = counter]),
                          counter + 1, Tail(list))

\* the loop over noteTags: addTagToNote(noteId, tagId) when the note and the
\* tag are stored; the link gets the server's next id unless the pair exists
RECURSIVE AttachAll(_, _, _, _, _)
AttachAll(links, counter, list, notes, tags) ==
  IF list = <<>> THEN [table |-> links, counter |-> counter]
  ELSE LET l == Head(list)
           stored == l.noteId \in IdsOf(notes) /\ l.tagId \in IdsOf(tags)
       IN  IF stored /\ ~ HasPair(links, l.noteId, l.tagId)
           THEN AttachAll(links \cup {LinkRec(counter, l.noteId, l.tagId)},
                          counter + 1, Tail(list), notes, tags)
           ELSE AttachAll(links, counter, Tail(list), notes, tags)

\* POST /api/supabase/sync with the lists of body (kinds: the lists the
\* body has): notes, folders, tags, then noteTags; a throw ends the request
\* with status 500 and keeps what was written before it
PostSync(remote, counters, body, kinds) ==
  LET step(k, st) ==
        IF k \in kinds /\ st.ok
        THEN LET r == UpdateAll(st.remote[k], st.counters[k], body[k])
             IN  [ok |-> r.ok,
                  remote |-> [st.remote EXCEPT ![k] = r.table],
                  counters |-> [st.counters EXCEPT ![k] = r.counter]]
        ELSE st
      s0 == [ok |-> TRUE, remote |-> remote, counters |-> counters]
      s3 == step("tags", step("folders", step("notes", s0)))
      a == AttachAll(s3.remote.noteTags, s3.counters.noteTags, body.noteTags,
                     s3.remote.notes, s3.remote.tags)
  IN  IF "noteTags" \in kinds /\ s3.ok
      THEN [ok |-> TRUE,
            remote |-> [s3.remote EXCEPT !.noteTags = a.table],
            counters |-> [s3.counters EXCEPT !.noteTags = a.counter]]
      ELSE s3

\* the awaited requests of one pass over all kinds
SupaSteps ==
  << [op |-> "get", kinds |-> {"notes"}],
     [op |-> "get", kinds |-> {"noteTags"}],
     [op |-> "get", kinds |-> {"folders"}],
     [op |-> "get", kinds |-> {"tags"}],
     [op |-> "import", kinds |-> Kinds],
     [op |-> "post", kinds |-> {"notes", "noteTags"}],
     [op |-> "post", kinds |-> {"folders"}],
     [op |-> "post", kinds |-> {"tags"}],
     [op |-> "meta", kinds |-> {}] >>

IdleSupa ==
  [pc |-> "idle", at |-> 0, localData |-> EmptyLists,
   remoteData |-> EmptyLists, merged |-> EmptyLists]

SupaAt(op) == sPass.pc = "running" /\ SupaSteps[sPass.at].op = op

SupaNext(fields) ==
  sPass' = fields @@
           [at |-> IF sPass.at = Len(SupaSteps) THEN 0 ELSE sPass.at + 1,
            pc |-> IF sPass.at = Len(SupaSteps) THEN "done" ELSE "running"]
           @@ sPass

SupaThrow == sPass' = [sPass EXCEPT !.pc = "failed", !.at = 0]

\* the call up to and including exportAllData
SupaStart ==
  /\ sPass.pc = "idle"
  /\ sPass' = [IdleSupa EXCEPT !.pc = "running", !.at = 1,
                               !.localData = exportAllData(sLocal)]
  /\ UNCHANGED <<sLocal, sRemote, sNext>>
  /\ UNCHANGED notSupaVars

\* if (!user || !user.id) return false
SupaNoUser ==
  /\ sPass.pc = "idle"
  /\ sPass' = [sPass EXCEPT !.pc = "skipped"]
  /\ UNCHANGED <<sLocal, sRemote, sNext>>
  /\ UNCHANGED notSupaVars

\* GET /api/supabase/<kind>: the records of the user
SupaGet ==
  /\ SupaAt("get")
  /\ SupaNext([remoteData |->
       [k \in Kinds |-> IF k \in SupaSteps[sPass.at].kinds
                        THEN SortById(sRemote[k]) ELSE sPass.remoteData[k]]])
  /\ UNCHANGED <<sLocal, sRemote, sNext>>
  /\ UNCHANGED notSupaVars

\* the awaited call of the step throws: the request fails (network, 401,
\* 500) or the import transaction aborts
SupaFails ==
  /\ SupaAt("get") \/ SupaAt("import") \/ SupaAt("post")
  /\ SupaThrow
  /\ UNCHANGED <<sLocal, sRemote, sNext>>
  /\ UNCHANGED notSupaVars

\* mergeData of each kind, then importAllData(mergedData)
SupaImport ==
  /\ SupaAt("import")
  /\ LET merged == [k \in Kinds |->
                      mergeData(sPass.localData[k], sPass.remoteData[k])]
     IN  /\ sLocal' = importAllData(sLocal, merged, Kinds)
         /\ SupaNext([merged |-> merged])
  /\ UNCHANGED <<sRemote, sNext>>
  /\ UNCHANGED notSupaVars

\* POST /api/supabase/sync with the merged lists of the step's kinds
SupaPost ==
  /\ SupaAt("post")
  /\ LET r == PostSync(sRemote, sNext, sPass.merged, SupaSteps[sPass.at].kinds)
     IN  /\ sRemote' = r.remote
         /\ sNext' = r.counters
         /\ IF apiRequestThrows(r.ok) THEN SupaThrow
            ELSE SupaNext([merged |-> sPass.merged])
  /\ UNCHANGED sLocal
  /\ UNCHANGED notSupaVars

\* saveMetadata('supabase-sync', ...); return true
SupaSaveMeta ==
  /\ SupaAt("meta")
  /\ SupaNext([merged |-> sPass.merged])
  /\ UNCHANGED <<sLocal, sRemote, sNext>>
  /\ UNCHANGED notSupaVars

\* the client and the server hold the same notes and tags, as an earlier
\* pass left them; each side has its own folders and links, and the
\* server's link counter is past every link id it holds
InitSupa ==
  /\ \E L \in LinkSets, R \in LinkSets, u \in SyncTimes,
        FL \in PlainSets("L"), FR \in PlainSets("R") :
       LET notes == {NoteRec(i, u, "L") : i \in SyncIds}
           tags == {PlainRec(i, "L") : i \in SyncIds}
       IN  /\ sLocal = [notes |-> notes, noteTags |-> L,
                        folders |-> FL, tags |-> tags]
           /\ sRemote = [notes |-> notes, noteTags |-> R,
                         folders |-> FR, tags |-> tags]
  /\ \E c \in 1..(SyncMaxLinkId + 1) :
       /\ \A l \in sRemote.noteTags : l.id < c
       /\ sNext = [k \in Kinds |->
                     IF k = "noteTags" THEN c ELSE SyncMaxId + 1]
  /\ sPass = IdleSupa

SupaIdle ==
  /\ sLocal = EmptyTables
  /\ sRemote = EmptyTables
  /\ sNext = [k \in Kinds |-> 1]
  /\ sPass = IdleSupa

NextSupa ==
  \/ SupaStart
  \/ SupaNoUser
  \/ SupaGet
  \/ SupaFails
  \/ SupaImport
  \/ SupaPost
  \/ SupaSaveMeta

(***************************************************************************)
(* Claim about the Supabase pass                                           *)
(***************************************************************************)
\* C17: when a pass has returned true, every table of the local store and
\* every table of the server holds exactly the ids of the merged list of
\* its kind: each merged record is on the server under its id, and the
\* server holds no other record.
C17_BothSidesHoldMerged ==
  sPass.pc = "done" =>
    \A k \in Kinds :
      /\ IdsOf(sLocal[k]) = Ids(sPass.merged[k])
      /\ IdsOf(sRemote[k]) = Ids(sPass.merged[k])

\* the local store and the server as one more pass over all kinds would
\* leave them, every request answering
SecondPass ==
  LET merged == [k \in Kinds |->
                   mergeData(exportAllData(sLocal)[k], SortById(sRemote[k]))]
      posted == PostSync(sRemote, sNext, merged, Kinds)
  IN  [local |-> importAllData(sLocal, merged, Kinds),
       remote |-> posted.remote]

\* C29: when a pass has returned true and nothing is edited afterwards, the
\* local store and the server hold the same records of every kind, and one
\* more pass changes no record of the local store or of the server.
C29_SuccessfulPassConverges ==
  sPass.pc = "done" =>
    /\ \A k \in Kinds : sLocal[k] = sRemote[k]
    /\ SecondPass.local = sLocal
    /\ SecondPass.remote = sRemote

(***************************************************************************)
(* The updatedAt of the notes of one store.  Every call that changes a     *)
(* stored note happens at the time the clock shows; mutatedAt is the time  *)
(* of the last such call, kept beside the record.  "utils" is              *)
(* utils/storage.ts, "localDb" is db.ts, "memStorage" is the MemStorage    *)
(* whose deleteFolder resets the folder of the notes.                      *)
(***************************************************************************)
StampNote(id, folderId, updatedAt, mutatedAt) ==
  [id |-> id, folderId |-> folderId, updatedAt |-> updatedAt,
   mutatedAt |-> mutatedAt]

\* time passes
Tick ==
  /\ tNow < StampMaxTime
  /\ tNow' = tNow + 1
  /\ UNCHANGED <<tImpl, tNotes, tFolder, notStampVars>>

\* createFolder
StampCreateFolder ==
  /\ ~ tFolder
  /\ tFolder' = TRUE
  /\ UNCHANGED <<tImpl, tNotes, tNow, notStampVars>>

\* saveNote of a new note / createNote: createdAt and updatedAt are now
StampCreateNote(folderId) ==
  /\ Cardinality(tNotes) < StampMaxNotes
  /\ folderId = 1 => tFolder
  /\ tNotes' = tNotes \cup
       {StampNote(Cardinality(tNotes) + 1, folderId, tNow, tNow)}
  /\ UNCHANGED <<tImpl, tFolder, tNow, notStampVars>>

\* saveNote of a stored note / updateNote: the fields given are merged over
\* the stored note, then updatedAt: new Date()
StampUpdateNote(id, folderId) ==
  /\ folderId = 1 => tFolder
  /\ \E n \in tNotes :
       /\ n.id = id
       /\ tNotes' = (tNotes \ {n}) \cup {StampNote(id, folderId, tNow, tNow)}
  /\ UNCHANGED <<tImpl, tFolder, tNow, notStampVars>>

\* deleteFolder(1).  utils/storage.ts deletes the notes of the folder;
\* db.ts calls updateNote(note.id, { folderId: null }) for each of them;
\* MemStorage sets { ...note, folderId: null } and leaves updatedAt
StampDeleteFolder ==
  /\ tFolder
  /\ tFolder' = FALSE
  /\ tNotes' =
       CASE tImpl = "utils" -> {n \in tNotes : n.folderId # 1}
         [] tImpl = "localDb" ->
              {IF n.folderId = 1 THEN StampNote(n.id, 0, tNow, tNow) ELSE n
                 : n \in tNotes}
         [] tImpl = "memStorage" ->
              {IF n.folderId = 1 THEN StampNote(n.id, 0, n.updatedAt, tNow)
               ELSE n : n \in tNotes}
  /\ UNCHANGED <<tImpl, tNow, notStampVars>>

InitStamp ==
  /\ tImpl \in {"utils", "localDb", "memStorage"}
  /\ tNotes = {}
  /\ tFolder = FALSE
  /\ tNow = 0

StampIdle ==
  /\ tImpl = "utils"
  /\ tNotes = {}
  /\ tFolder = FALSE
  /\ tNow = 0

NextStamp ==
  \/ Tick
  \/ StampCreateFolder
  \/ \E folderId \in 0..1 : StampCreateNote(folderId)
  \/ \E id \in 1..StampMaxNotes, folderId \in 0..1 :
       StampUpdateNote(id, folderId)
  \/ StampDeleteFolder

\* C25: over creates, updates and folder deletions, the updatedAt of every
\* stored note is the time of the last call that changed the note, the
\* reset of its folder by deleteFolder included.
C25_UpdatedAtIsLastMutation ==
  \A n \in tNotes : n.updatedAt = n.mutatedAt

(***************************************************************************)
(* The useStorage hook of lib/hooks/useStorage.ts: its mode, the calls     *)
(* that set it, and the sync passes its sync functions start.  A pass runs *)
(* on after the call that started it; each of its writes to the backend is *)
(* a step.                                                                 *)
(***************************************************************************)
NoPass == [target |-> "none", left |-> 0]
NoWrite == [target |-> "none", mode |-> "none"]

\* the backend syncData, syncNotes, syncFolders and syncTags sync with:
\* if (!isInitialized) return; webdav needs webdavConfig (and its pass
\* returns false when the config is not enabled), supabase needs user
SyncTarget(initialized, type, config, user) ==
  IF ~ initialized THEN "none"
  ELSE IF type = "webdav" /\ config # "none"
       THEN IF config = "enabled" THEN "webdav" ELSE "none"
  ELSE IF type = "supabase" /\ user THEN "supabase"
  ELSE "none"

StartPass(target) ==
  IF target = "none" \/ cPass # NoPass THEN cPass
  ELSE [target |-> target, left |-> CtlMaxWrites]

\* the body shared by initialize and refresh: the current user is fetched,
\* then the WebDAV config, then the adapter is initialized.  answer is what
\* the user request gave; the catch of initialize falls back to local,
\* the catch of refresh returns false
LoadStorage(call, answer, config, initOk) ==
  /\ call = "initialize" => ~ cInit
  /\ call = "refresh" => cInit
  /\ answer = "user" => cSession
  /\ answer = "none" => ~ cSession
  /\ cUser' = IF answer = "error" THEN cUser ELSE answer = "user"
  /\ cConfig' = IF answer = "user" THEN config ELSE cConfig
  /\ cType' =
       CASE answer = "user" /\ initOk ->
              IF config = "enabled" THEN "webdav" ELSE "supabase"
         [] answer = "none" -> "local"
         [] OTHER -> IF call = "initialize" THEN "local" ELSE cType
  /\ cInit' = TRUE
  /\ UNCHANGED <<cSession, cPass, cWrote, notCtlVars>>

\* updateWebDAVConfig(config): the PUT, then the adapter of the new mode is
\* initialized and the mode set; after 'webdav' is set, syncData() of the
\* render the call was made in is awaited
updateWebDAVConfig(enabled, putOk, initOk) ==
  /\ putOk => cSession
  /\ cConfig' = IF putOk THEN (IF enabled THEN "enabled" ELSE "disabled")
                ELSE cConfig
  /\ cType' = IF ~ (putOk /\ initOk) THEN cType
              ELSE IF enabled THEN "webdav"
              ELSE IF cUser THEN "supabase"
              ELSE "local"
  /\ cPass' = IF putOk /\ initOk /\ enabled
              THEN StartPass(SyncTarget(cInit, cType, cConfig, cUser))
              ELSE cPass
  /\ UNCHANGED <<cUser, cInit, cSession, cWrote, notCtlVars>>

\* syncData / syncNotes / syncFolders / syncTags, also as called by the
\* onSuccess of a note mutation when storageType !== 'local': the call
\* starts a pass, which then runs by itself
syncData ==
  /\ cPass = NoPass
  /\ SyncTarget(cInit, cType, cConfig, cUser) # "none"
  /\ cPass' = StartPass(SyncTarget(cInit, cType, cConfig, cUser))
  /\ UNCHANGED <<cType, cUser, cConfig, cInit, cSession, cWrote, notCtlVars>>

\* the pass in flight uploads a file to WebDAV or posts to the sync route
PassWrites ==
  /\ cPass.left > 0
  /\ cWrote' = [target |-> cPass.target, mode |-> cType]
  /\ cPass' = IF cPass.left = 1 THEN NoPass
              ELSE [cPass EXCEPT !.left = @ - 1]
  /\ UNCHANGED <<cType, cUser, cConfig, cInit, cSession, notCtlVars>>

\* the user logs in or out: the session cookie changes, the hook reads it
\* only in initialize and refresh
SessionChanges ==
  /\ cSession' = ~ cSession
  /\ UNCHANGED <<cType, cUser, cConfig, cInit, cPass, cWrote, notCtlVars>>

InitCtl ==
  /\ cType = "local"
  /\ cUser = FALSE
  /\ cConfig = "none"
  /\ cInit = FALSE
  /\ cSession \in BOOLEAN
  /\ cPass = NoPass
  /\ cWrote = NoWrite

CtlIdle ==
  /\ cType = "local"
  /\ cUser = FALSE
  /\ cConfig = "none"
  /\ cInit = FALSE
  /\ cSession = FALSE
  /\ cPass = NoPass
  /\ cWrote = NoWrite

NextCtl ==
  \/ \E call \in {"initialize", "refresh"}, answer \in {"user", "none", "error"},
        config \in {"none", "enabled", "disabled"}, initOk \in BOOLEAN :
       LoadStorage(call, answer, config, initOk)
  \/ \E enabled \in BOOLEAN, putOk \in BOOLEAN, initOk \in BOOLEAN :
       updateWebDAVConfig(enabled, putOk, initOk)
  \/ syncData
  \/ PassWrites
  \/ SessionChanges

\* C26: no write to the WebDAV server or to the Supabase routes happens
\* while the mode of the hook is 'local', whichever sync function started
\* the pass that writes.
C26_NoRemoteWriteInLocalMode ==
  cWrote.target # "none" => cWrote.mode # "local"

(***************************************************************************)
(* The owners of the server's records: POST /api/supabase/sync of         *)
(* server/routes.ts on the MemStorage, with two registered users.         *)
(***************************************************************************)
Users == {"A", "B"}

\* the lists of a request body the loops of the route write records from
OwnKinds == {"notes", "folders", "tags"}

\* a record of the server: a note has updatedAt, a folder or a tag has not
OwnRec(k, id, user, v) ==
  IF k = "notes"
  THEN [id |-> id, userId |-> user, updatedAt |-> 1, val |-> v]
  ELSE [id |-> id, userId |-> user, val |-> v]

\* { ...note, userId: req.session.userId }: the record of the body with the
\* session's user as its owner
Owned(list, user) ==
  [i \in 1..Len(list) |-> [list[i] EXCEPT !.userId = user]]

\* POST /api/auth/login with the credentials of user u
OwnLogin(u) ==
  /\ oUser' = u
  /\ UNCHANGED <<oStore, oNext, oStatus>>
  /\ UNCHANGED notOwnVars

\* POST /api/auth/logout: req.session.destroy
OwnLogout ==
  /\ oUser # "none"
  /\ oUser' = "none"
  /\ UNCHANGED <<oStore, oNext, oStatus>>
  /\ UNCHANGED notOwnVars

\* POST /api/supabase/sync without a session: 401
OwnPostUnauthenticated ==
  /\ oUser = "none"
  /\ oStatus' = 401
  /\ UNCHANGED <<oStore, oNext, oUser>>
  /\ UNCHANGED notOwnVars

\* POST /api/supabase/sync in the session of oUser, with the lists notes,
\* folders and tags of body: whatever owner a record of the body claims,
\* the route writes it with the session's user
OwnPostSync(body) ==
  /\ oUser # "none"
  /\ \A k \in OwnKinds :
       \A i \in 1..Len(body[k]) : body[k][i].id = 0 => oNext[k] <= OwnMaxId + 1
  /\ LET r == PostSync(oStore, oNext,
                       [k \in Kinds |-> IF k \in OwnKinds
                                        THEN Owned(body[k], oUser) ELSE <<>>],
                       OwnKinds)
     IN  /\ oStore' = r.remote
         /\ oNext' = r.counters
         /\ oStatus' = IF r.ok THEN 200 ELSE 500
  /\ UNCHANGED oUser
  /\ UNCHANGED notOwnVars

\* the lists of one kind a body can hold: records of ascending ids out of
\* 0..OwnMaxId that claim the owner u
OwnLists(k, u) ==
  {SortById({OwnRec(k, i, u, "new") : i \in S}) : S \in SUBSET (0..OwnMaxId)}

\* each user owns some of the records 1..OwnMaxId of each kind
InitOwn ==
  /\ \E f \in [OwnKinds -> [1..OwnMaxId -> Users \cup {"none"}]] :
       oStore = [k \in Kinds |->
                   IF k \in OwnKinds
                   THEN {OwnRec(k, i, f[k][i], "old") :
                           i \in {j \in 1..OwnMaxId : f[k][j] # "none"}}
                   ELSE {}]
  /\ oNext = [k \in Kinds |-> OwnMaxId + 1]
  /\ oUser = "none"
  /\ oStatus = 0

OwnIdle ==
  /\ oStore = EmptyTables
  /\ oNext = [k \in Kinds |-> 1]
  /\ oUser = "none"
  /\ oStatus = 0

NextOwn ==
  \/ \E u \in Users : OwnLogin(u)
  \/ OwnLogout
  \/ OwnPostUnauthenticated
  \/ \E u \in Users :
       \E notes \in OwnLists("notes", u), folders \in OwnLists("folders", u),
          tags \in OwnLists("tags", u) :
         OwnPostSync([notes |-> notes, folders |-> folders, tags |-> tags])

vars ==
  <<mergeVars, syncVars, modeVars, storeVars, entVars, portVars, supaVars,
    stampVars, ctlVars, ownVars>>

\* C27: every step that adds a link to the noteTags table is taken in a
\* state whose notes table holds the link's note and whose tags table holds
\* the link's tag.
C27_LinkOnlyToStoredNoteAndTag ==
  [][\A l \in ent'.noteTags \ ent.noteTags :
       l.noteId \in NoteIds(ent.notes) /\ l.tagId \in ent.tags]_vars

\* C30: a POST /api/supabase/sync made in the session of one user leaves
\* every note, folder and tag owned by another user as it is: its fields
\* and its owner are the same after the request, whatever ids the body has.
C30_OtherUsersRecordsUntouched ==
  [][\A k \in OwnKinds :
       \A r \in oStore[k] : r.userId # oUser => r \in oStore'[k]]_vars

\* the start of the specification of one part: its initial states, with
\* every other part idle
Start(part) ==
  /\ IF part = "merge" THEN InitMerge ELSE MergeIdle
  /\ IF part = "sync" THEN InitSync
     ELSE IF part = "links" THEN InitLinks ELSE SyncIdle
  /\ IF part = "mode" THEN InitMode ELSE ModeIdle
  /\ IF part = "store" THEN InitStore ELSE StoreIdle
  /\ IF part = "ent" THEN InitEnt ELSE EntIdle
  /\ IF part = "port" THEN InitPort ELSE PortIdle
  /\ IF part = "supa" THEN InitSupa ELSE SupaIdle
  /\ IF part = "stamp" THEN InitStamp ELSE StampIdle
  /\ IF part = "ctl" THEN InitCtl ELSE CtlIdle
  /\ IF part = "own" THEN InitOwn ELSE OwnIdle

\* the storage mode controller: every awaited call of the effects settles
ModeFairness ==
  /\ WF_vars(\E ok \in BOOLEAN : LocalInitDone(ok))
  /\ WF_vars(\E ok \in BOOLEAN : MountInitDone(ok))
  /\ WF_vars(\E own \in BOOLEAN : WebdavInitDone(own) \/ WebdavInitFails(own))
  /\ WF_vars(\E responseOk \in BOOLEAN : checkAuthStatus(responseOk))

SpecMerge == Start("merge") /\ [][NextMerge]_vars

SpecSync == Start("sync") /\ [][NextSync]_vars

SpecRace == Start("sync") /\ [][NextRace]_vars

SpecLinks == Start("links") /\ [][NextSync]_vars

SpecMode == Start("mode") /\ [][NextMode]_vars
SpecModeFair == Start("mode") /\ [][NextMode]_vars /\ ModeFairness

SpecStore == Start("store") /\ [][NextStore]_vars

SpecEnt == Start("ent") /\ [][NextEnt]_vars

SpecPort == Start("port") /\ [][NextPort]_vars

SpecSupa == Start("supa") /\ [][NextSupa]_vars

SpecStamp == Start("stamp") /\ [][NextStamp]_vars

SpecCtl == Start("ctl") /\ [][NextCtl]_vars

SpecOwn == Start("own") /\ [][NextOwn]_vars

====
